---- MODULE Spec2Model ----
(***************************************************************************)
(* otel-web: browser tracing plugins.  A model of the plugin subsystem:    *)
(* the data-fetch cache plugin (createQueryPlugin), the navigation plugin  *)
(* (createRouterPlugin), the HTTP plugin (createFetchPlugin) and the       *)
(* page-load plugin (createDocumentLoadPlugin), each driving a shared      *)
(* tracer, with initialize and the attribute span processor.  Every span   *)
(* the tracer hands out is kept in                                         *)
(* `spans`; a span handle is its index there.  `calls` is the trace of the *)
(* operation that produced the current state: its first entry names the    *)
(* operation and its input, the rest are the calls the code made on the    *)
(* tracer, on span handles, on unsubscribe handles and on the functions it *)
(* captured, in program order.  The tracer keeps no reference to a span:   *)
(* once no plugin holds its handle any more (the span has ended and is     *)
(* exported, or it was dropped) the span stays in `spans` for the state    *)
(* that follows the operation, and is gone when the next operation starts. *)
(***************************************************************************)
EXTENDS Integers, Sequences, FiniteSets, TLC

VARIABLES
    plugins,                  \* config.plugins: the plugins the application installs
    spans,                    \* the tracer's spans, by handle
    calls,                    \* trace of the last operation
    \* data-fetch cache plugin (createQueryPlugin closure) and its two caches
    unsubQueryCache,          \* let unsubQueryCache
    unsubMutationCache,       \* let unsubMutationCache
    querySpans,               \* Map<string, Span>, insertion ordered
    mutationSpans,            \* Map<number, Span>, insertion ordered
    queryListeners,           \* listeners the query cache currently holds
    mutationListeners,        \* listeners the mutation cache currently holds
    \* navigation plugin (createRouterPlugin closure) and its router
    unsubBeforeNavigate,      \* let unsubBeforeNavigate
    unsubResolved,            \* let unsubResolved
    activeSpan,               \* let activeSpan
    beforeNavigateListeners,  \* router listeners of "onBeforeNavigate"
    resolvedListeners,        \* router listeners of "onResolved"
    \* HTTP plugin (one createFetchPlugin closure per instance) and the globals
    api,                      \* the request mechanism the application uses
    fetchFn,                  \* globalThis.fetch
    xhrOpenFn,                \* XMLHttpRequest.prototype.open
    xhrSendFn,                \* XMLHttpRequest.prototype.send
    originalFetch,            \* let originalFetch, of each instance
    originalXhrOpen,          \* let originalXhrOpen, of each instance
    originalXhrSend,          \* let originalXhrSend, of each instance
    pending,                  \* the spans awaiting each unsettled native fetch
    xhr,                      \* the application's XMLHttpRequest object
    \* page-load plugin (createDocumentLoadPlugin closure), document and window
    readyState,               \* document.readyState
    loadDispatched,           \* the window load event has been dispatched
    timeline,                 \* the performance timeline, by entry type
    support,                  \* what the browser offers of PerformanceObserver
    setups,                   \* setup() calls of the page-load plugin so far
    observer,                 \* let observer
    observers,                \* the PerformanceObserver objects, by handle
    loadListeners,            \* once-listeners of the window load event
    \* initialize, its provider and the spans the application holds
    config,                   \* the configuration initialize was called with
    provider,                 \* the tracer provider: none, registered, shutdown
    pluginState,              \* each plugin instance: created, active, inactive
    session,                  \* the user the attribute supplier reads
    appSpans                  \* the span handles started with the tracer and kept

vars == <<plugins, spans, calls,
          unsubQueryCache, unsubMutationCache, querySpans, mutationSpans,
          queryListeners, mutationListeners,
          unsubBeforeNavigate, unsubResolved, activeSpan,
          beforeNavigateListeners, resolvedListeners,
          api, fetchFn, xhrOpenFn, xhrSendFn,
          originalFetch, originalXhrOpen, originalXhrSend, pending, xhr,
          readyState, loadDispatched, timeline, support, setups,
          observer, observers, loadListeners,
          config, provider, pluginState, session, appSpans>>

cacheVars == <<unsubQueryCache, unsubMutationCache, querySpans, mutationSpans,
               queryListeners, mutationListeners>>

routerVars == <<unsubBeforeNavigate, unsubResolved, activeSpan,
                beforeNavigateListeners, resolvedListeners>>

httpVars == <<api, fetchFn, xhrOpenFn, xhrSendFn,
              originalFetch, originalXhrOpen, originalXhrSend, pending, xhr>>

pageVars == <<readyState, loadDispatched, timeline, support, setups,
              observer, observers, loadListeners>>

initVars == <<config, provider, pluginState, session, appSpans>>

----------------------------------------------------------------------------
(* Bounds of the model *)

\* spans the tracer holds at one time
MaxSpans == 3

\* listeners of one plugin that an event source holds at one time
MaxListeners == 2

\* setup() calls of the page-load plugin
MaxSetups == 1

\* plugins in config.plugins
MaxPlugins == 2

----------------------------------------------------------------------------
(* JavaScript values *)

\* the JavaScript value undefined, where a record or an array may stand
Undefined == [undefined |-> TRUE]

\* undefined where a span handle may stand: handles count from 1
NoSpan == 0

\* undefined where an unsubscribe handle may stand: handles count from 1
NoHandle == 0

\* values an action's `error` field may hold: an Error instance, an object
\* that is not an Error instance but has a message, and undefined
ErrorValues ==
    { [kind |-> "Error",  message |-> "Network down"],
      [kind |-> "object", message |-> "timeout"],
      [kind |-> "undefined"] }

\* error instanceof Error
InstanceOfError(error) == error.kind = "Error"

\* a JavaScript array, and its elements tagged as a string or a number
Array(elements) == [array |-> elements]
Str(s) == [t |-> "string", v |-> s]
Num(n) == [t |-> "number", v |-> n]

\* JSON.stringify of one array element
JsonElement(e) ==
    IF e.t = "string" THEN "\"" \o e.v \o "\"" ELSE ToString(e.v)

RECURSIVE JsonJoin(_)
JsonJoin(elements) ==
    IF elements = <<>> THEN ""
    ELSE IF Len(elements) = 1 THEN JsonElement(elements[1])
    ELSE JsonElement(elements[1]) \o "," \o JsonJoin(Tail(elements))

\* JSON.stringify of an array of strings and numbers
JsonStringify(arr) == "[" \o JsonJoin(arr.array) \o "]"

----------------------------------------------------------------------------
(* The tracer and its span handles (the external tracing SDK).  A span     *)
(* that has ended is immutable: setStatus, setAttribute and                *)
(* recordException on it change nothing.  `ends` counts the end() calls.   *)

StatusUnset == [code |-> "UNSET"]
StatusOk == [code |-> "OK"]
StatusError(message) == [code |-> "ERROR", message |-> message]

NewSpan(name, attributes) ==
    [name |-> name, attributes |-> attributes, status |-> StatusUnset,
     exceptions |-> <<>>, ends |-> 0]

\* the least handle the tracer does not hold
FreshHandle(held) ==
    CHOOSE h \in 1..(Cardinality(held) + 1) :
        h \notin held /\ \A g \in 1..(h - 1) : g \in held

\* tracer.startSpan(name, {attributes})
TracerStartSpan(E, name, attributes) ==
    LET h == FreshHandle(DOMAIN E.spans)
    IN  [E EXCEPT !.spans = (h :> NewSpan(name, attributes)) @@ @,
                  !.calls = Append(@, [op |-> "startSpan", span |-> h])]

\* the handle returned by the startSpan call that ends the trace of E
LastSpan(E) == E.calls[Len(E.calls)].span

\* the spans of `all` whose handle is in `held`: the tracer keeps no reference
\* to a span, so one that nothing holds is gone (exported when it has ended,
\* garbage when it has not)
LiveSpans(all, held) ==
    [h \in {g \in DOMAIN all : g \in held} |-> all[h]]

\* span.setAttributes(attributes)
SpanSetAttributes(E, span, attributes) ==
    [E EXCEPT !.spans[span].attributes =
                  IF E.spans[span].ends > 0 THEN @ ELSE attributes @@ @,
              !.calls = Append(@, [op |-> "setAttributes", span |-> span,
                                   attributes |-> attributes])]

\* span.setStatus(status)
SpanSetStatus(E, span, status) ==
    [E EXCEPT !.spans[span].status = IF E.spans[span].ends > 0 THEN @ ELSE status,
              !.calls = Append(@, [op |-> "setStatus", span |-> span, status |-> status])]

\* span.recordException(error)
SpanRecordException(E, span, error) ==
    [E EXCEPT !.spans[span].exceptions =
                  IF E.spans[span].ends > 0 THEN @ ELSE Append(@, error),
              !.calls = Append(@, [op |-> "recordException", span |-> span, error |-> error])]

\* span.end()
SpanEnd(E, span) ==
    [E EXCEPT !.spans[span].ends = @ + 1,
              !.calls = Append(@, [op |-> "end", span |-> span])]

----------------------------------------------------------------------------
(* Map<K, V>: a sequence of entries in insertion order *)

MapHas(m, k) == \E i \in DOMAIN m : m[i].key = k

MapIndex(m, k) == CHOOSE i \in DOMAIN m : m[i].key = k

\* Map.get of a map of span handles: undefined when the key is absent
MapGet(m, k) == IF MapHas(m, k) THEN m[MapIndex(m, k)].value ELSE NoSpan

\* Map.set: an existing key keeps its place
MapSet(m, k, v) ==
    IF MapHas(m, k)
    THEN [m EXCEPT ![MapIndex(m, k)].value = v]
    ELSE Append(m, [key |-> k, value |-> v])

\* Map.delete
MapDelete(m, k) ==
    IF MapHas(m, k)
    THEN SubSeq(m, 1, MapIndex(m, k) - 1) \o SubSeq(m, MapIndex(m, k) + 1, Len(m))
    ELSE m

MapKeys(m) == { m[i].key : i \in DOMAIN m }

\* the values of a map, as a set
MapRange(m) == { m[i].value : i \in DOMAIN m }

\* Map.values(), in insertion order
MapValues(m) == [i \in DOMAIN m |-> m[i].value]

----------------------------------------------------------------------------
(* Data-fetch cache plugin: createQueryPlugin *)

\* the queries of the application: event.query
Queries ==
    { [queryHash |-> "q1", queryKey |-> Array(<<Str("todos")>>)],
      [queryHash |-> "q2", queryKey |-> Array(<<Str("todo"), Num(7)>>)] }

\* the mutations of the application: event.mutation
Mutations ==
    { [mutationId |-> 1, options |-> [mutationKey |-> Undefined]],
      [mutationId |-> 2, options |-> [mutationKey |-> Array(<<Str("addTodo")>>)]] }

\* event.action of a cache event: absent, or {type, error}
QueryActions ==
    { Undefined }
    \cup { [type |-> t, error |-> [kind |-> "undefined"]] :
             t \in {"fetch", "success", "invalidate"} }
    \cup { [type |-> "error", error |-> e] : e \in ErrorValues }

MutationActions ==
    { Undefined }
    \cup { [type |-> t, error |-> [kind |-> "undefined"]] :
             t \in {"pending", "success", "continue"} }
    \cup { [type |-> "error", error |-> e] : e \in ErrorValues }

\* events the query cache notifies its listeners of
QueryCacheEvents ==
    { [type |-> "updated", query |-> q, action |-> a] :
        q \in Queries, a \in QueryActions }
    \cup { [type |-> "added", query |-> q,
            action |-> [type |-> "fetch",
                        error |-> [kind |-> "undefined"]]] :
             q \in Queries }

\* events the mutation cache notifies its listeners of
MutationCacheEvents ==
    { [type |-> "updated", mutation |-> m, action |-> a] :
        m \in Mutations, a \in MutationActions }
    \cup { [type |-> ty, mutation |-> Undefined,
            action |-> [type |-> "pending",
                        error |-> [kind |-> "undefined"]]] :
             ty \in {"updated"} }
    \cup { [type |-> "added", mutation |-> m,
            action |-> [type |-> "pending",
                        error |-> [kind |-> "undefined"]]] :
             m \in Mutations }

\* FailureStatus without the instanceof test
FailureStatusNoInstanceOf(error) == StatusError("Unknown error")

\* status of a span whose operation failed with `error`
FailureStatus(error) ==
    StatusError(IF InstanceOfError(error) THEN error.message ELSE "Unknown error")

\* the query listener's "fetch" branch: open a span for the hash
QueryFetchBranch(P, event) ==
    LET queryHash == event.query.queryHash
        queryKey == event.query.queryKey
        S == TracerStartSpan(P, "query " \o JsonStringify(queryKey),
                 [query_hash |-> queryHash, query_key |-> JsonStringify(queryKey)])
    IN  [S EXCEPT !.querySpans = MapSet(@, queryHash, LastSpan(S))]

\* QuerySuccessBranch without querySpans.delete(queryHash)
QuerySuccessBranchNoDelete(P, event) ==
    LET span == MapGet(P.querySpans, event.query.queryHash)
    IN  IF span # NoSpan THEN SpanEnd(SpanSetStatus(P, span, StatusOk), span) ELSE P

\* the query listener's "success" branch
QuerySuccessBranch(P, event) ==
    LET queryHash == event.query.queryHash
        span == MapGet(P.querySpans, queryHash)
    IN  IF span # NoSpan
        THEN [SpanEnd(SpanSetStatus(P, span, StatusOk), span)
                 EXCEPT !.querySpans = MapDelete(@, queryHash)]
        ELSE P

\* the query listener's "error" branch
QueryErrorBranch(P, event) ==
    LET queryHash == event.query.queryHash
        error == event.action.error
        span == MapGet(P.querySpans, queryHash)
        S1 == SpanSetStatus(P, span, FailureStatus(error))
        S2 == IF InstanceOfError(error) THEN SpanRecordException(S1, span, error) ELSE S1
    IN  IF span # NoSpan
        THEN [SpanEnd(S2, span) EXCEPT !.querySpans = MapDelete(@, queryHash)]
        ELSE P

\* QueryListener whose "fetch" branch lacks the !querySpans.has(queryHash) test
QueryListenerNoHasTest(P, event) ==
    IF event.type # "updated" \/ event.action = Undefined THEN P
    ELSE IF event.action.type = "fetch" THEN QueryFetchBranch(P, event)
    ELSE IF event.action.type = "success" THEN QuerySuccessBranch(P, event)
    ELSE IF event.action.type = "error" THEN QueryErrorBranch(P, event)
    ELSE P

\* the listener setup() subscribes to the query cache
QueryListener(P, event) ==
    IF event.type # "updated" \/ event.action = Undefined THEN P
    ELSE IF event.action.type = "fetch" /\ ~MapHas(P.querySpans, event.query.queryHash)
         THEN QueryFetchBranch(P, event)
    ELSE IF event.action.type = "success" THEN QuerySuccessBranch(P, event)
    ELSE IF event.action.type = "error" THEN QueryErrorBranch(P, event)
    ELSE P

\* the mutation listener's "pending" branch: open a span for the id
MutationPendingBranch(P, event) ==
    LET mutationId == event.mutation.mutationId
        mutationKey == event.mutation.options.mutationKey
        S == TracerStartSpan(P,
                 "mutation " \o (IF mutationKey # Undefined
                                 THEN JsonStringify(mutationKey)
                                 ELSE ToString(mutationId)),
                 [mutation_id |-> mutationId,
                  mutation_key |-> IF mutationKey # Undefined
                                   THEN JsonStringify(mutationKey) ELSE ""])
    IN  [S EXCEPT !.mutationSpans = MapSet(@, mutationId, LastSpan(S))]

\* the mutation listener's "success" branch
MutationSuccessBranch(P, event) ==
    LET mutationId == event.mutation.mutationId
        span == MapGet(P.mutationSpans, mutationId)
    IN  IF span # NoSpan
        THEN [SpanEnd(SpanSetStatus(P, span, StatusOk), span)
                 EXCEPT !.mutationSpans = MapDelete(@, mutationId)]
        ELSE P

\* MutationErrorBranch without the `if (span)` test: calling setStatus on
\* undefined throws a TypeError
MutationErrorBranchNoSpanTest(P, event) ==
    LET mutationId == event.mutation.mutationId
        error == event.action.error
        span == MapGet(P.mutationSpans, mutationId)
        S1 == SpanSetStatus(P, span, FailureStatus(error))
        S2 == IF InstanceOfError(error) THEN SpanRecordException(S1, span, error) ELSE S1
    IN  IF span # NoSpan
        THEN [SpanEnd(S2, span) EXCEPT !.mutationSpans = MapDelete(@, mutationId)]
        ELSE [P EXCEPT !.calls = Append(@, [op |-> "throw", error |-> "TypeError"])]

\* the mutation listener's "error" branch
MutationErrorBranch(P, event) ==
    LET mutationId == event.mutation.mutationId
        error == event.action.error
        span == MapGet(P.mutationSpans, mutationId)
        S1 == SpanSetStatus(P, span, FailureStatus(error))
        S2 == IF InstanceOfError(error) THEN SpanRecordException(S1, span, error) ELSE S1
    IN  IF span # NoSpan
        THEN [SpanEnd(S2, span) EXCEPT !.mutationSpans = MapDelete(@, mutationId)]
        ELSE P

\* the listener setup() subscribes to the mutation cache
MutationListener(P, event) ==
    IF event.type # "updated" \/ event.action = Undefined \/ event.mutation = Undefined
    THEN P
    ELSE IF event.action.type = "pending"
            /\ ~MapHas(P.mutationSpans, event.mutation.mutationId)
         THEN MutationPendingBranch(P, event)
    ELSE IF event.action.type = "success" THEN MutationSuccessBranch(P, event)
    ELSE IF event.action.type = "error" THEN MutationErrorBranch(P, event)
    ELSE P

\* the span handles the plugins hold: in their tables, in the continuations
\* that await a fetch and in the listeners they added to the request object
HeldSpans ==
    MapRange(querySpans) \cup MapRange(mutationSpans) \cup ({activeSpan} \ {NoSpan})
    \cup UNION { { p[k] : k \in DOMAIN p } : p \in pending }
    \cup { xhr.listeners[k].span : k \in DOMAIN xhr.listeners }
    \cup appSpans

\* the tracer's spans when an operation starts
Tracer == LiveSpans(spans, HeldSpans)

\* the plugin's closure state together with the tracer and the trace
CachePluginState(trace) ==
    [spans |-> Tracer, calls |-> trace,
     querySpans |-> querySpans, mutationSpans |-> mutationSpans]

\* the least listener id the event source does not hold
FreshListener(listeners) == FreshHandle(listeners)

\* a cache calls each of its n listeners in turn
RECURSIVE NotifyQueryListeners(_, _, _)
NotifyQueryListeners(P, event, n) ==
    IF n = 0 THEN P ELSE NotifyQueryListeners(QueryListener(P, event), event, n - 1)

RECURSIVE NotifyMutationListeners(_, _, _)
NotifyMutationListeners(P, event, n) ==
    IF n = 0 THEN P ELSE NotifyMutationListeners(MutationListener(P, event), event, n - 1)

\* createQueryPlugin(...).setup(tracer): subscribe one listener to each cache
QuerySetup ==
    /\ "query" \in plugins
    /\ Cardinality(queryListeners) < MaxListeners
    /\ unsubQueryCache' = FreshListener(queryListeners)
    /\ unsubMutationCache' = FreshListener(mutationListeners)
    /\ queryListeners' = queryListeners \cup {FreshListener(queryListeners)}
    /\ mutationListeners' = mutationListeners \cup {FreshListener(mutationListeners)}
    /\ calls' = <<[op |-> "setup", plugin |-> "query"]>>
    /\ spans' = Tracer
    /\ UNCHANGED <<plugins, pageVars, initVars, httpVars, querySpans, mutationSpans, routerVars>>

\* the query cache notifies its listeners of an event
QueryCacheNotify(event) ==
    LET P == NotifyQueryListeners(
                 CachePluginState(<<[op |-> "queryEvent", event |-> event]>>),
                 event, Cardinality(queryListeners))
    IN  /\ Cardinality(DOMAIN P.spans) <= MaxSpans
        /\ spans' = P.spans
        /\ calls' = P.calls
        /\ querySpans' = P.querySpans
        /\ mutationSpans' = P.mutationSpans
        /\ UNCHANGED <<plugins, pageVars, initVars, httpVars, unsubQueryCache, unsubMutationCache, queryListeners,
                       mutationListeners, routerVars>>

\* the mutation cache notifies its listeners of an event
MutationCacheNotify(event) ==
    LET P == NotifyMutationListeners(
                 CachePluginState(<<[op |-> "mutationEvent", event |-> event]>>),
                 event, Cardinality(mutationListeners))
    IN  /\ Cardinality(DOMAIN P.spans) <= MaxSpans
        /\ spans' = P.spans
        /\ calls' = P.calls
        /\ querySpans' = P.querySpans
        /\ mutationSpans' = P.mutationSpans
        /\ UNCHANGED <<plugins, pageVars, initVars, httpVars, unsubQueryCache, unsubMutationCache, queryListeners,
                       mutationListeners, routerVars>>

\* span.end() on each handle of a sequence, in order
RECURSIVE EndAll(_, _)
EndAll(E, handles) ==
    IF handles = <<>> THEN E ELSE EndAll(SpanEnd(E, handles[1]), Tail(handles))

\* unsub?.(): the call, when the handle is set
CallUnsubscribe(E, source, handle) ==
    IF handle = NoHandle THEN E
    ELSE [E EXCEPT !.calls = Append(@, [op |-> "unsubscribe", source |-> source,
                                         handle |-> handle])]

\* QueryTeardownBody without the loop over mutationSpans.values()
QueryTeardownBodyNoMutationLoop(P) ==
    LET U1 == CallUnsubscribe(P, "queryCache", unsubQueryCache)
        U2 == CallUnsubscribe(U1, "mutationCache", unsubMutationCache)
        Q == [EndAll(U2, MapValues(U2.querySpans)) EXCEPT !.querySpans = <<>>]
    IN  [Q EXCEPT !.mutationSpans = <<>>]

\* createQueryPlugin(...).teardown() on the closure state P
QueryTeardownBody(P) ==
    LET U1 == CallUnsubscribe(P, "queryCache", unsubQueryCache)
        U2 == CallUnsubscribe(U1, "mutationCache", unsubMutationCache)
        Q == [EndAll(U2, MapValues(U2.querySpans)) EXCEPT !.querySpans = <<>>]
    IN  [EndAll(Q, MapValues(Q.mutationSpans)) EXCEPT !.mutationSpans = <<>>]

QueryTeardown ==
    LET P == QueryTeardownBody(CachePluginState(<<[op |-> "teardown", plugin |-> "query"]>>))
    IN  /\ "query" \in plugins
        /\ spans' = P.spans
        /\ calls' = P.calls
        /\ querySpans' = P.querySpans
        /\ mutationSpans' = P.mutationSpans
        /\ queryListeners' = queryListeners \ {unsubQueryCache}
        /\ mutationListeners' = mutationListeners \ {unsubMutationCache}
        /\ UNCHANGED <<plugins, pageVars, initVars, httpVars, unsubQueryCache, unsubMutationCache, routerVars>>

----------------------------------------------------------------------------
(* Navigation plugin: createRouterPlugin *)

\* navigation events of the router
NavigationEvents ==
    { [type |-> "onBeforeNavigate", fromLocation |-> Undefined,
       toLocation |-> [pathname |-> "/"], pathChanged |-> TRUE],
      [type |-> "onBeforeNavigate", fromLocation |-> [pathname |-> "/"],
       toLocation |-> [pathname |-> "/todos"], pathChanged |-> TRUE] }

RouterPluginState(trace) ==
    [spans |-> Tracer, calls |-> trace, activeSpan |-> activeSpan]

\* BeforeNavigateListener without the end() of the span that is still active
BeforeNavigateListenerNoEnd(P, event) ==
    LET S == TracerStartSpan(P, "navigate " \o event.toLocation.pathname,
                 [router_from |-> IF event.fromLocation # Undefined
                                  THEN event.fromLocation.pathname ELSE "",
                  router_to |-> event.toLocation.pathname,
                  router_path_changed |-> event.pathChanged])
    IN  [S EXCEPT !.activeSpan = LastSpan(S)]

\* the listener setup() subscribes to "onBeforeNavigate"
BeforeNavigateListener(P, event) ==
    LET E == IF P.activeSpan # NoSpan THEN SpanEnd(P, P.activeSpan) ELSE P
        S == TracerStartSpan(E, "navigate " \o event.toLocation.pathname,
                 [router_from |-> IF event.fromLocation # Undefined
                                  THEN event.fromLocation.pathname ELSE "",
                  router_to |-> event.toLocation.pathname,
                  router_path_changed |-> event.pathChanged])
    IN  [S EXCEPT !.activeSpan = LastSpan(S)]

\* ResolvedListener keeping the handle of the span it ended
ResolvedListenerNoClear(P) ==
    IF P.activeSpan # NoSpan
    THEN SpanEnd(SpanSetStatus(P, P.activeSpan, StatusOk), P.activeSpan)
    ELSE P

\* the listener setup() subscribes to "onResolved"
ResolvedListener(P) ==
    IF P.activeSpan # NoSpan
    THEN [SpanEnd(SpanSetStatus(P, P.activeSpan, StatusOk), P.activeSpan)
             EXCEPT !.activeSpan = NoSpan]
    ELSE P

RECURSIVE NotifyBeforeNavigate(_, _, _)
NotifyBeforeNavigate(P, event, n) ==
    IF n = 0 THEN P
    ELSE NotifyBeforeNavigate(BeforeNavigateListener(P, event), event, n - 1)

RECURSIVE NotifyResolved(_, _)
NotifyResolved(P, n) ==
    IF n = 0 THEN P ELSE NotifyResolved(ResolvedListener(P), n - 1)

\* createRouterPlugin(...).setup(tracer)
RouterSetup ==
    /\ "router" \in plugins
    /\ Cardinality(beforeNavigateListeners) < MaxListeners
    /\ unsubBeforeNavigate' = FreshListener(beforeNavigateListeners)
    /\ unsubResolved' = FreshListener(resolvedListeners)
    /\ beforeNavigateListeners' =
           beforeNavigateListeners \cup {FreshListener(beforeNavigateListeners)}
    /\ resolvedListeners' = resolvedListeners \cup {FreshListener(resolvedListeners)}
    /\ calls' = <<[op |-> "setup", plugin |-> "router"]>>
    /\ spans' = Tracer
    /\ UNCHANGED <<plugins, pageVars, initVars, httpVars, activeSpan, cacheVars>>

\* the router emits onBeforeNavigate
RouterBeforeNavigate(event) ==
    LET P == NotifyBeforeNavigate(
                 RouterPluginState(<<[op |-> "onBeforeNavigate", event |-> event]>>),
                 event, Cardinality(beforeNavigateListeners))
    IN  /\ Cardinality(DOMAIN P.spans) <= MaxSpans
        /\ spans' = P.spans
        /\ calls' = P.calls
        /\ activeSpan' = P.activeSpan
        /\ UNCHANGED <<plugins, pageVars, initVars, httpVars, unsubBeforeNavigate, unsubResolved,
                       beforeNavigateListeners, resolvedListeners, cacheVars>>

\* the router emits onResolved
RouterResolved ==
    LET P == NotifyResolved(RouterPluginState(<<[op |-> "onResolved"]>>),
                            Cardinality(resolvedListeners))
    IN  /\ spans' = P.spans
        /\ calls' = P.calls
        /\ activeSpan' = P.activeSpan
        /\ UNCHANGED <<plugins, pageVars, initVars, httpVars, unsubBeforeNavigate, unsubResolved,
                       beforeNavigateListeners, resolvedListeners, cacheVars>>

\* RouterTeardownBody dropping the active span without ending it
RouterTeardownBodyNoEnd(P) ==
    LET U1 == CallUnsubscribe(P, "onBeforeNavigate", unsubBeforeNavigate)
        U2 == CallUnsubscribe(U1, "onResolved", unsubResolved)
    IN  [U2 EXCEPT !.activeSpan = NoSpan]

\* createRouterPlugin(...).teardown() on the closure state P
RouterTeardownBody(P) ==
    LET U1 == CallUnsubscribe(P, "onBeforeNavigate", unsubBeforeNavigate)
        U2 == CallUnsubscribe(U1, "onResolved", unsubResolved)
    IN  IF U2.activeSpan # NoSpan
        THEN [SpanEnd(U2, U2.activeSpan) EXCEPT !.activeSpan = NoSpan]
        ELSE U2

RouterTeardown ==
    LET P == RouterTeardownBody(
                 RouterPluginState(<<[op |-> "teardown", plugin |-> "router"]>>))
    IN  /\ "router" \in plugins
        /\ spans' = P.spans
        /\ calls' = P.calls
        /\ activeSpan' = P.activeSpan
        /\ beforeNavigateListeners' = beforeNavigateListeners \ {unsubBeforeNavigate}
        /\ resolvedListeners' = resolvedListeners \ {unsubResolved}
        /\ UNCHANGED <<plugins, pageVars, initVars, httpVars, unsubBeforeNavigate, unsubResolved, cacheVars>>

----------------------------------------------------------------------------
(* HTTP plugin: createFetchPlugin.  A function value is a record: a native *)
(* entry point, or the wrapper an instance installs over it.  The wrappers *)
(* one instance installs at several setup() calls run the same code over   *)
(* the same closure variables and are one value here.  An absolute URL is  *)
(* the sequence of its parts, a relative one has no scheme part; a pattern *)
(* matches a URL that contains its source.                                 *)

\* the instances the application created with createFetchPlugin(config)
Instances == {1, 2}

\* a call that needs a frame beyond this one throws RangeError
StackLimit == 3

\* the native fetches that may be unsettled while spans await them
MaxInflight == 1

RegExp(source) == [source |-> source]

\* the config argument of each instance
FetchPluginConfigs ==
    (1 :> [ignoreUrls |-> <<RegExp("/v1/traces")>>,
           propagateToUrls |-> <<RegExp(".example.com")>>])
    @@ (2 :> [propagateToUrls |-> <<RegExp(".other.net")>>])

\* const { ignoreUrls = [], propagateToUrls = [] } = config
IgnoreUrls(i) ==
    IF "ignoreUrls" \in DOMAIN FetchPluginConfigs[i]
    THEN FetchPluginConfigs[i].ignoreUrls ELSE <<>>

PropagateToUrls(i) ==
    IF "propagateToUrls" \in DOMAIN FetchPluginConfigs[i]
    THEN FetchPluginConfigs[i].propagateToUrls ELSE <<>>

\* location.origin
LocationOrigin == <<"https://", "app", ".example.com">>

\* new URL(url, base).href
NewUrlHref(url, base) ==
    IF url # <<>> /\ url[1] = "https://" THEN url ELSE base \o url

\* p.test(url), for a pattern without the global flag
RegExpTest(p, url) == \E k \in DOMAIN url : url[k] = p.source

\* patterns.some((p) => p.test(url))
MatchesAny(url, patterns) == \E k \in DOMAIN patterns : RegExpTest(patterns[k], url)

\* the (input, init) arguments the application passes to fetch
FetchArguments ==
    { <<[kind |-> "string", value |-> <<"/users">>], Undefined>>,
      <<[kind |-> "URL",
         href |-> <<"https://", "collector", ".example.com", "/v1/traces">>],
        [method |-> "post", headers |-> <<[name |-> "x-app", value |-> "1"]>>]>>,
      <<[kind |-> "Request", url |-> <<"https://", "cdn", ".other.net", "/lib.js">>,
         method |-> "DELETE"],
        [headers |-> <<[name |-> "traceparent", value |-> "00-caller-01"]>>]>> }

\* what propagation.inject(context.active(), carrier) leaves in the carrier
Carriers ==
    { <<>>,
      <<[key |-> "traceparent", value |-> "00-active-01"],
        [key |-> "tracestate", value |-> "vendor=1"]>> }

\* where the stack runs out in a wrapper that runs as the last frame
Overflows == {"entry", "headers", "call"}

\* the chain of calls that starts at fn, the callee of `frame`, ends within
\* the stack: it reaches a native function or a callee that is no function
RECURSIVE ChainEnds(_, _, _)
ChainEnds(fn, originals, frame) ==
    IF frame > StackLimit THEN FALSE
    ELSE IF ~("inst" \in DOMAIN fn) THEN TRUE
    ELSE ChainEnds(originals[fn.inst], originals, frame + 1)

\* the stack can only run out in a chain that does not end
OverflowsOf(fn, originals) ==
    IF ChainEnds(fn, originals, 1) THEN {"call"} ELSE Overflows

\* s.toUpperCase()
ToUpperCase(s) ==
    CASE s = "get" -> "GET"
      [] s = "post" -> "POST"
      [] s = "delete" -> "DELETE"
      [] OTHER -> s

\* resolveUrl(input)
ResolveUrl(input) ==
    IF input.kind = "string" THEN NewUrlHref(input.value, LocationOrigin)
    ELSE IF input.kind = "URL" THEN input.href
    ELSE NewUrlHref(input.url, LocationOrigin)

\* resolveMethod(input, init)
ResolveMethod(input, init) ==
    IF init # Undefined /\ "method" \in DOMAIN init /\ init.method # ""
    THEN ToUpperCase(init.method)
    ELSE IF input.kind = "Request" THEN ToUpperCase(input.method)
    ELSE "GET"

\* new Headers(init?.headers)
NewHeaders(init) ==
    IF init = Undefined \/ "headers" \notin DOMAIN init THEN <<>> ELSE init.headers

\* headers.set(key, value)
HeadersSet(headers, key, value) ==
    IF \E k \in DOMAIN headers : headers[k].name = key
    THEN [k \in DOMAIN headers |->
             IF headers[k].name = key THEN [name |-> key, value |-> value]
             ELSE headers[k]]
    ELSE Append(headers, [name |-> key, value |-> value])

\* injectTraceHeaders(headers): sets every entry of the carrier
RECURSIVE InjectTraceHeaders(_, _)
InjectTraceHeaders(headers, carrier) ==
    IF carrier = <<>> THEN headers
    ELSE InjectTraceHeaders(HeadersSet(headers, carrier[1].key, carrier[1].value),
                            Tail(carrier))

\* { ...init, headers }
SpreadInit(init, headers) ==
    IF init = Undefined THEN [headers |-> headers]
    ELSE [f \in DOMAIN init \cup {"headers"} |->
             IF f = "headers" THEN headers ELSE init[f]]

\* the native entry points and the wrappers installed over them
NativeFetch == [native |-> "fetch"]
NativeXhrOpen == [native |-> "XMLHttpRequest.prototype.open"]
NativeXhrSend == [native |-> "XMLHttpRequest.prototype.send"]
Wrapper(i, name) == [inst |-> i, wraps |-> name]
IsWrapper(fn) == "inst" \in DOMAIN fn

\* errors the engine raises
TypeErrorValue == [kind |-> "Error", message |-> "not a function"]
RangeErrorValue == [kind |-> "Error", message |-> "Maximum call stack size exceeded"]

\* promises: pending on a native fetch with the spans whose continuations
\* await it (innermost first), or rejected
Pending(awaiting) == [promise |-> "pending", awaiting |-> awaiting]
Rejected(reason) == [promise |-> "rejected", reason |-> reason]

\* a frame returns a value, or an exception leaves it
Returned(E, frame, value) ==
    [E EXCEPT !.calls = Append(@, [op |-> "return", frame |-> frame, value |-> value]),
              !.ret = [thrown |-> FALSE, value |-> value]]

Threw(E, frame, error) ==
    [E EXCEPT !.calls = Append(@, [op |-> "throw", frame |-> frame, error |-> error]),
              !.ret = [thrown |-> TRUE, error |-> error]]

\* the call expression itself throws: the callee is no function, or there is
\* no stack left for its frame
Raised(E, error) == [E EXCEPT !.ret = [thrown |-> TRUE, error |-> error]]

Called(E, fn, frame, args) ==
    [E EXCEPT !.calls = Append(@, [op |-> "call", fn |-> fn, frame |-> frame,
                                   args |-> args])]

\* a frame ends as the call it made last ended
Exit(R, frame) ==
    IF R.ret.thrown THEN Threw(R, frame, R.ret.error)
    ELSE Returned(R, frame, R.ret.value)

\* propagation.inject(context.active(), carrier)
PropagationInject(E, carrier) ==
    [E EXCEPT !.calls = Append(@, [op |-> "inject", carrier |-> carrier])]

\* the globals and every instance's captured originals
HttpGlobals ==
    [fetchFn |-> fetchFn, xhrOpenFn |-> xhrOpenFn, xhrSendFn |-> xhrSendFn,
     originalFetch |-> originalFetch, originalXhrOpen |-> originalXhrOpen,
     originalXhrSend |-> originalXhrSend]

\* the tracer, the trace and the request object when an operation starts
HttpState(trace) ==
    [spans |-> Tracer, calls |-> trace, xhr |-> xhr, ret |-> Undefined]

\* the catch branch without the recordException call
FetchCatchBranchNoRecord(E, span, error) ==
    LET S == SpanSetStatus(E, span,
                 StatusError(IF InstanceOfError(error) THEN error.message
                             ELSE "Fetch failed"))
    IN  SpanEnd(S, span)

\* the catch branch of the fetch wrapper, before it rethrows
FetchCatchBranch(E, span, error) ==
    LET S == SpanSetStatus(E, span,
                 StatusError(IF InstanceOfError(error) THEN error.message
                             ELSE "Fetch failed"))
        X == IF InstanceOfError(error) THEN SpanRecordException(S, span, error) ELSE S
    IN  SpanEnd(X, span)

RECURSIVE CallFetch(_, _, _, _, _, _, _)
RECURSIVE FetchWrapper(_, _, _, _, _, _, _)

\* FetchTraced injecting the trace headers whatever the URL
FetchTracedAlwaysInject(G, i, input, init, E, frame, env) ==
    LET url == ResolveUrl(input)
        method == ResolveMethod(input, init)
        S == TracerStartSpan(E, "HTTP " \o method,
                 ("http.method" :> method) @@ ("http.url" :> url))
        span == LastSpan(S)
        H == PropagationInject(S, env.carrier)
        headers == InjectTraceHeaders(NewHeaders(init), env.carrier)
        R == CallFetch(G, G.originalFetch[i], input, SpreadInit(init, headers),
                       H, frame + 1, env)
        failure == IF R.ret.thrown THEN R.ret.error ELSE R.ret.value.reason
    IN  IF frame = StackLimit /\ env.overflow = "headers"
        THEN Returned(S, frame, Rejected(RangeErrorValue))
        ELSE IF R.ret.thrown \/ R.ret.value.promise = "rejected"
        THEN Returned(FetchCatchBranch(R, span, failure), frame, Rejected(failure))
        ELSE Returned(R, frame, Pending(Append(R.ret.value.awaiting, span)))

\* the traced path of the fetch wrapper, up to its await
FetchTraced(G, i, input, init, E, frame, env) ==
    LET url == ResolveUrl(input)
        method == ResolveMethod(input, init)
        S == TracerStartSpan(E, "HTTP " \o method,
                 ("http.method" :> method) @@ ("http.url" :> url))
        span == LastSpan(S)
        propagate == MatchesAny(url, PropagateToUrls(i))
        H == IF propagate THEN PropagationInject(S, env.carrier) ELSE S
        headers == IF propagate
                   THEN InjectTraceHeaders(NewHeaders(init), env.carrier)
                   ELSE NewHeaders(init)
        R == CallFetch(G, G.originalFetch[i], input, SpreadInit(init, headers),
                       H, frame + 1, env)
        failure == IF R.ret.thrown THEN R.ret.error ELSE R.ret.value.reason
    IN  IF frame = StackLimit /\ env.overflow = "headers"
        THEN Returned(S, frame, Rejected(RangeErrorValue))
        ELSE IF R.ret.thrown \/ R.ret.value.promise = "rejected"
        THEN Returned(FetchCatchBranch(R, span, failure), frame, Rejected(failure))
        ELSE Returned(R, frame, Pending(Append(R.ret.value.awaiting, span)))

\* FetchWrapper without the ignoreUrls test
FetchWrapperNoIgnoreTest(G, i, input, init, E, frame, env) ==
    IF frame = StackLimit /\ env.overflow = "entry"
    THEN Returned(E, frame, Rejected(RangeErrorValue))
    ELSE FetchTraced(G, i, input, init, E, frame, env)

\* the async function patchFetch installs, of instance i, running as `frame`
FetchWrapper(G, i, input, init, E, frame, env) ==
    IF frame = StackLimit /\ env.overflow = "entry"
    THEN Returned(E, frame, Rejected(RangeErrorValue))
    ELSE IF MatchesAny(ResolveUrl(input), IgnoreUrls(i))
    THEN LET R == CallFetch(G, G.originalFetch[i], input, init, E, frame + 1, env)
         IN  Returned(R, frame,
                      IF R.ret.thrown THEN Rejected(R.ret.error) ELSE R.ret.value)
    ELSE FetchTraced(G, i, input, init, E, frame, env)

\* fn(input, init), the callee running as `frame`
CallFetch(G, fn, input, init, E, frame, env) ==
    IF fn = Undefined THEN Raised(E, TypeErrorValue)
    ELSE IF frame > StackLimit THEN Raised(E, RangeErrorValue)
    ELSE IF fn = NativeFetch
    THEN Returned(Called(E, fn, frame, <<input, init>>), frame, Pending(<<>>))
    ELSE FetchWrapper(G, fn.inst, input, init,
                      Called(E, fn, frame, <<input, init>>), frame, env)

\* the responses and failures a native fetch settles with
Responses ==
    { [status |-> 200, headers |-> <<[name |-> "content-length", value |-> "512"]>>],
      [status |-> 304, headers |-> <<>>],
      [status |-> 404, headers |-> <<>>] }

Outcomes ==
    { [fulfilled |-> TRUE, response |-> r] : r \in Responses }
    \cup { [fulfilled |-> FALSE, reason |-> e] : e \in ErrorValues }

\* response.ok
ResponseOk(response) == response.status \in 200..299

\* Number(response.headers.get("content-length")) || 0
ContentLength(response) ==
    IF \E k \in DOMAIN response.headers :
           response.headers[k] = [name |-> "content-length", value |-> "512"]
    THEN 512 ELSE 0

\* the fetch wrapper after its await, for a response
FetchFulfilled(E, span, response) ==
    LET A == SpanSetAttributes(E, span,
                 ("http.status_code" :> response.status)
                 @@ ("http.response.content_length" :> ContentLength(response)))
        S == IF ResponseOk(response) THEN SpanSetStatus(A, span, StatusOk)
             ELSE SpanSetStatus(A, span,
                      StatusError("HTTP " \o ToString(response.status)))
    IN  SpanEnd(S, span)

\* `return response` and `throw error` after the await: the promise the
\* wrapper returned for `span` is fulfilled with the value, or rejected
Fulfills(E, span, value) ==
    [E EXCEPT !.calls = Append(@, [op |-> "fulfilled", span |-> span, value |-> value])]

Rejects(E, span, reason) ==
    [E EXCEPT !.calls = Append(@, [op |-> "rejected", span |-> span, reason |-> reason])]

\* the continuations awaiting a native fetch run innermost first, each
\* handing the response on, or rethrowing the failure
RECURSIVE FetchContinue(_, _, _)
FetchContinue(E, awaiting, outcome) ==
    IF awaiting = <<>> THEN E
    ELSE FetchContinue(IF outcome.fulfilled
                       THEN Fulfills(FetchFulfilled(E, awaiting[1], outcome.response),
                                     awaiting[1], outcome.response)
                       ELSE Rejects(FetchCatchBranch(E, awaiting[1], outcome.reason),
                                    awaiting[1], outcome.reason),
                       Tail(awaiting), outcome)

\* the request object, as `new XMLHttpRequest()` makes it
NoMethod == ""
NoUrl == <<>>

NewXhr ==
    [readyState |-> "UNSENT", method |-> NoMethod, url |-> NoUrl,
     __otel_method |-> NoMethod, __otel_url |-> NoUrl,
     requestHeaders |-> <<>>, listeners |-> <<>>, status |-> 0]

\* the (method, url) and body arguments the application passes
XhrOpenArguments ==
    { <<"get", <<"/users">>>>,
      <<"POST", <<"https://", "collector", ".example.com", "/v1/traces">>>>,
      <<"GET", <<"https://", "cdn", ".other.net", "/lib.js">>>> }

XhrBodies == {"", "payload"}

\* this.setRequestHeader(key, value) for every entry of the carrier
RECURSIVE SetRequestHeaders(_, _)
SetRequestHeaders(E, carrier) ==
    IF carrier = <<>> THEN E
    ELSE SetRequestHeaders(
             [E EXCEPT !.xhr.requestHeaders =
                           Append(@, [name |-> carrier[1].key,
                                      value |-> carrier[1].value]),
                       !.calls = Append(@, [op |-> "setRequestHeader",
                                            key |-> carrier[1].key,
                                            value |-> carrier[1].value])],
             Tail(carrier))

\* this.addEventListener(type, listener), the listener closing over span
AddEventListener(E, type, span) ==
    [E EXCEPT !.xhr.listeners = Append(@, [type |-> type, span |-> span]),
              !.calls = Append(@, [op |-> "addEventListener", type |-> type,
                                   span |-> span])]

RECURSIVE CallXhrOpen(_, _, _, _, _, _, _)
RECURSIVE CallXhrSend(_, _, _, _, _, _)

\* the function patchXhr installs as open, of instance i, running as `frame`
XhrOpenWrapper(G, i, method, url, E, frame, env) ==
    IF frame = StackLimit /\ env.overflow = "entry"
    THEN Threw(E, frame, RangeErrorValue)
    ELSE Exit(CallXhrOpen(G, G.originalXhrOpen[i], method, url,
                          [E EXCEPT !.xhr.__otel_method = ToUpperCase(method),
                                    !.xhr.__otel_url = NewUrlHref(url, LocationOrigin)],
                          frame + 1, env),
              frame)

\* fn.apply(this, [method, url]), the callee running as `frame`
CallXhrOpen(G, fn, method, url, E, frame, env) ==
    IF fn = Undefined THEN Raised(E, TypeErrorValue)
    ELSE IF frame > StackLimit THEN Raised(E, RangeErrorValue)
    ELSE IF fn = NativeXhrOpen
    THEN Returned([Called(E, fn, frame, <<method, url>>)
                       EXCEPT !.xhr.readyState = "OPENED",
                              !.xhr.method = ToUpperCase(method),
                              !.xhr.url = NewUrlHref(url, LocationOrigin),
                              !.xhr.requestHeaders = <<>>],
                  frame, Undefined)
    ELSE XhrOpenWrapper(G, fn.inst, method, url,
                        Called(E, fn, frame, <<method, url>>), frame, env)

\* the traced path of the send wrapper
XhrSendTraced(G, i, body, E, frame, env) ==
    LET url == E.xhr.__otel_url
        method == E.xhr.__otel_method
        S == TracerStartSpan(E, "HTTP " \o method,
                 ("http.method" :> method) @@ ("http.url" :> url))
        span == LastSpan(S)
        H == IF MatchesAny(url, PropagateToUrls(i))
             THEN SetRequestHeaders(PropagationInject(S, env.carrier), env.carrier)
             ELSE S
        L == AddEventListener(AddEventListener(H, "loadend", span), "error", span)
    IN  IF frame = StackLimit /\ env.overflow = "headers"
        THEN Threw(S, frame, RangeErrorValue)
        ELSE Exit(CallXhrSend(G, G.originalXhrSend[i], body, L, frame + 1, env), frame)

\* the function patchXhr installs as send, of instance i, running as `frame`
XhrSendWrapper(G, i, body, E, frame, env) ==
    IF frame = StackLimit /\ env.overflow = "entry"
    THEN Threw(E, frame, RangeErrorValue)
    ELSE IF \/ E.xhr.__otel_url = NoUrl
            \/ E.xhr.__otel_method = NoMethod
            \/ MatchesAny(E.xhr.__otel_url, IgnoreUrls(i))
    THEN Exit(CallXhrSend(G, G.originalXhrSend[i], body, E, frame + 1, env), frame)
    ELSE XhrSendTraced(G, i, body, E, frame, env)

\* fn.call(this, body), the callee running as `frame`
CallXhrSend(G, fn, body, E, frame, env) ==
    IF fn = Undefined THEN Raised(E, TypeErrorValue)
    ELSE IF frame > StackLimit THEN Raised(E, RangeErrorValue)
    ELSE IF fn = NativeXhrSend
    THEN Returned([Called(E, fn, frame, <<body>>) EXCEPT !.xhr.readyState = "SENT"],
                  frame, Undefined)
    ELSE XhrSendWrapper(G, fn.inst, body, Called(E, fn, frame, <<body>>), frame, env)

\* span.setAttribute(key, value)
SpanSetAttribute(E, span, key, value) ==
    [E EXCEPT !.spans[span].attributes =
                  IF E.spans[span].ends > 0 THEN @ ELSE (key :> value) @@ @,
              !.calls = Append(@, [op |-> "setAttribute", span |-> span,
                                   key |-> key, value |-> value])]

\* the "loadend" listener the send wrapper adds, closing over span
XhrLoadendListener(E, span) ==
    LET A == SpanSetAttribute(E, span, "http.status_code", E.xhr.status)
        S == IF E.xhr.status >= 200 /\ E.xhr.status < 400
             THEN SpanSetStatus(A, span, StatusOk)
             ELSE SpanSetStatus(A, span,
                      StatusError("HTTP " \o ToString(E.xhr.status)))
    IN  SpanEnd(S, span)

\* the "error" listener the send wrapper adds, closing over span
XhrErrorListener(E, span) ==
    SpanEnd(SpanSetStatus(E, span, StatusError("XHR request failed")), span)

\* the listeners of `type` run in the order they were added
RECURSIVE RunListeners(_, _, _)
RunListeners(E, type, listeners) ==
    IF listeners = <<>> THEN E
    ELSE RunListeners(IF Head(listeners).type # type THEN E
                      ELSE IF type = "loadend"
                      THEN XhrLoadendListener(E, Head(listeners).span)
                      ELSE XhrErrorListener(E, Head(listeners).span),
                      type, Tail(listeners))

\* the browser fires the events of a sequence, in order, at the request
RECURSIVE DispatchEvents(_, _)
DispatchEvents(E, events) ==
    IF events = <<>> THEN E
    ELSE DispatchEvents(
             RunListeners([E EXCEPT !.calls = Append(@, [op |-> "dispatch",
                                                         type |-> Head(events)])],
                          Head(events), E.xhr.listeners),
             Tail(events))

\* how a request that was sent ends: with a response, and the browser fires
\* load and loadend; with a network error, and it fires error and then
\* loadend; at its timeout, and it fires timeout and then loadend.  The
\* status of a request that got no response is 0.
XhrOutcomes ==
    { [events |-> <<"load", "loadend">>, status |-> r.status] : r \in Responses }
    \cup { [events |-> <<"error", "loadend">>, status |-> 0],
           [events |-> <<"timeout", "loadend">>, status |-> 0] }

\* an assignment to a global entry point
Assigned(G, entry, fn) ==
    [G EXCEPT !.calls = Append(@, [op |-> "assign", entry |-> entry, fn |-> fn])]

\* PatchFetch capturing the global after it installed the wrapper
PatchFetchCaptureLate(G, i) ==
    [Assigned(G, "fetch", Wrapper(i, "fetch"))
         EXCEPT !.fetchFn = Wrapper(i, "fetch"),
                !.originalFetch[i] = Wrapper(i, "fetch")]

\* patchFetch(tracer) of instance i
PatchFetch(G, i) ==
    [Assigned(G, "fetch", Wrapper(i, "fetch"))
         EXCEPT !.originalFetch[i] = G.fetchFn,
                !.fetchFn = Wrapper(i, "fetch")]

\* patchXhr(tracer) of instance i
PatchXhr(G, i) ==
    [Assigned(Assigned(G, "open", Wrapper(i, "open")), "send", Wrapper(i, "send"))
         EXCEPT !.originalXhrOpen[i] = G.xhrOpenFn,
                !.originalXhrSend[i] = G.xhrSendFn,
                !.xhrOpenFn = Wrapper(i, "open"),
                !.xhrSendFn = Wrapper(i, "send")]

\* createFetchPlugin(config).setup(tracer) of instance i
FetchPluginSetupBody(G, i) == PatchXhr(PatchFetch(G, i), i)

\* FetchPluginTeardownBody without the tests of the captured originals
FetchPluginTeardownBodyNoTests(G, i) ==
    LET F == [Assigned(G, "fetch", G.originalFetch[i])
                  EXCEPT !.fetchFn = G.originalFetch[i],
                         !.originalFetch[i] = Undefined]
        O == [Assigned(F, "open", F.originalXhrOpen[i])
                  EXCEPT !.xhrOpenFn = F.originalXhrOpen[i],
                         !.originalXhrOpen[i] = Undefined]
    IN  [Assigned(O, "send", O.originalXhrSend[i])
             EXCEPT !.xhrSendFn = O.originalXhrSend[i],
                    !.originalXhrSend[i] = Undefined]

\* createFetchPlugin(config).teardown() of instance i
FetchPluginTeardownBody(G, i) ==
    LET F == IF G.originalFetch[i] # Undefined
             THEN [Assigned(G, "fetch", G.originalFetch[i])
                       EXCEPT !.fetchFn = G.originalFetch[i],
                              !.originalFetch[i] = Undefined]
             ELSE G
        O == IF F.originalXhrOpen[i] # Undefined
             THEN [Assigned(F, "open", F.originalXhrOpen[i])
                       EXCEPT !.xhrOpenFn = F.originalXhrOpen[i],
                              !.originalXhrOpen[i] = Undefined]
             ELSE F
    IN  IF O.originalXhrSend[i] # Undefined
        THEN [Assigned(O, "send", O.originalXhrSend[i])
                  EXCEPT !.xhrSendFn = O.originalXhrSend[i],
                         !.originalXhrSend[i] = Undefined]
        ELSE O

\* the globals and originals when setup() or teardown() starts
Lifecycle(trace) ==
    [fetchFn |-> fetchFn, xhrOpenFn |-> xhrOpenFn, xhrSendFn |-> xhrSendFn,
     originalFetch |-> originalFetch, originalXhrOpen |-> originalXhrOpen,
     originalXhrSend |-> originalXhrSend, calls |-> trace]

\* the step installs the globals and originals of G, and its trace
SetGlobals(G) ==
    /\ calls' = G.calls
    /\ fetchFn' = G.fetchFn
    /\ xhrOpenFn' = G.xhrOpenFn
    /\ xhrSendFn' = G.xhrSendFn
    /\ originalFetch' = G.originalFetch
    /\ originalXhrOpen' = G.originalXhrOpen
    /\ originalXhrSend' = G.originalXhrSend

FetchPluginSetup(i) ==
    /\ "http" \in plugins
    /\ SetGlobals(FetchPluginSetupBody(
           Lifecycle(<<[op |-> "setup", plugin |-> "http", inst |-> i,
                        globals |-> <<fetchFn, xhrOpenFn, xhrSendFn>>]>>), i))
    /\ spans' = Tracer
    /\ UNCHANGED <<plugins, pageVars, initVars, api, pending, xhr, cacheVars, routerVars>>

FetchPluginTeardown(i) ==
    /\ "http" \in plugins
    /\ SetGlobals(FetchPluginTeardownBody(
           Lifecycle(<<[op |-> "teardown", plugin |-> "http", inst |-> i]>>), i))
    /\ spans' = Tracer
    /\ UNCHANGED <<plugins, pageVars, initVars, api, pending, xhr, cacheVars, routerVars>>

\* the result of the call the application made: as the call ended, an
\* exception leaving the application's frame 0
Outermost(R) == IF R.ret.thrown THEN Threw(R, 0, R.ret.error) ELSE R

\* the application calls fetch(input, init)
Fetch(input, init, carrier, overflow) ==
    LET R == Outermost(CallFetch(HttpGlobals, fetchFn, input, init,
                 HttpState(<<[op |-> "fetch", input |-> input, init |-> init]>>),
                 1, [carrier |-> carrier, overflow |-> overflow]))
        awaited == IF ~R.ret.thrown /\ R.ret.value.promise = "pending"
                      /\ R.ret.value.awaiting # <<>>
                   THEN {R.ret.value.awaiting} ELSE {}
    IN  /\ "http" \in plugins
        /\ api = "fetch"
        /\ overflow \in OverflowsOf(fetchFn, originalFetch)
        /\ Cardinality(DOMAIN R.spans) <= MaxSpans
        /\ Cardinality(pending \cup awaited) <= MaxInflight
        /\ pending' = pending \cup awaited
        /\ spans' = R.spans
        /\ calls' = R.calls
        /\ UNCHANGED <<plugins, pageVars, initVars, api, fetchFn, xhrOpenFn, xhrSendFn, originalFetch,
                       originalXhrOpen, originalXhrSend, xhr,
                       cacheVars, routerVars>>

\* a native fetch settles and the continuations awaiting it run
FetchSettle(awaiting, outcome) ==
    LET R == FetchContinue(
                 HttpState(<<[op |-> "settle", awaiting |-> awaiting,
                              outcome |-> outcome]>>),
                 awaiting, outcome)
    IN  /\ awaiting \in pending
        /\ pending' = pending \ {awaiting}
        /\ spans' = R.spans
        /\ calls' = R.calls
        /\ UNCHANGED <<plugins, pageVars, initVars, api, fetchFn, xhrOpenFn, xhrSendFn, originalFetch,
                       originalXhrOpen, originalXhrSend, xhr,
                       cacheVars, routerVars>>

\* the application makes a request object, new XMLHttpRequest(), and drops
\* the one it had, unless that one is a traced request in flight
XhrNew ==
    /\ "http" \in plugins
    /\ api = "xhr"
    /\ xhr.readyState # "SENT" \/ xhr.listeners = <<>>
    /\ xhr # NewXhr
    /\ xhr' = NewXhr
    /\ calls' = <<[op |-> "new XMLHttpRequest"]>>
    /\ spans' = Tracer
    /\ UNCHANGED <<plugins, pageVars, initVars, api, fetchFn, xhrOpenFn, xhrSendFn, originalFetch,
                   originalXhrOpen, originalXhrSend, pending,
                   cacheVars, routerVars>>

\* the application calls xhr.open(method, url) on a request that is not in
\* flight and has not ended: it makes a new object for each request
XhrOpen(method, url, overflow) ==
    LET R == Outermost(CallXhrOpen(HttpGlobals, xhrOpenFn, method, url,
                 HttpState(<<[op |-> "open", method |-> method, url |-> url]>>),
                 1, [carrier |-> <<>>, overflow |-> overflow]))
    IN  /\ "http" \in plugins
        /\ api = "xhr"
        /\ xhr.readyState \notin {"SENT", "DONE"}
        /\ overflow \in OverflowsOf(xhrOpenFn, originalXhrOpen)
        /\ xhr' = R.xhr
        /\ spans' = R.spans
        /\ calls' = R.calls
        /\ UNCHANGED <<plugins, pageVars, initVars, api, fetchFn, xhrOpenFn, xhrSendFn, originalFetch,
                       originalXhrOpen, originalXhrSend, pending,
                       cacheVars, routerVars>>

\* the application calls xhr.send(body) on the request it opened; it does
\* not send again on a request object whose send() threw
XhrSend(body, carrier, overflow) ==
    LET R == Outermost(CallXhrSend(HttpGlobals, xhrSendFn, body,
                 HttpState(<<[op |-> "send", body |-> body]>>),
                 1, [carrier |-> carrier, overflow |-> overflow]))
    IN  /\ "http" \in plugins
        /\ api = "xhr"
        /\ xhr.readyState = "OPENED"
        /\ xhr.listeners = <<>>
        /\ overflow \in OverflowsOf(xhrSendFn, originalXhrSend)
        /\ Cardinality(DOMAIN R.spans) <= MaxSpans
        /\ xhr' = R.xhr
        /\ spans' = R.spans
        /\ calls' = R.calls
        /\ UNCHANGED <<plugins, pageVars, initVars, api, fetchFn, xhrOpenFn, xhrSendFn, originalFetch,
                       originalXhrOpen, originalXhrSend, pending,
                       cacheVars, routerVars>>

\* the request that was sent ends, and the browser fires its events
XhrSettle(outcome) ==
    LET E == HttpState(<<[op |-> "xhr settle", outcome |-> outcome]>>)
        R == DispatchEvents([E EXCEPT !.xhr.readyState = "DONE",
                                      !.xhr.status = outcome.status],
                            outcome.events)
    IN  /\ "http" \in plugins
        /\ api = "xhr"
        /\ xhr.readyState = "SENT"
        /\ xhr' = R.xhr
        /\ spans' = R.spans
        /\ calls' = R.calls
        /\ UNCHANGED <<plugins, pageVars, initVars, api, fetchFn, xhrOpenFn, xhrSendFn, originalFetch,
                       originalXhrOpen, originalXhrSend, pending,
                       cacheVars, routerVars>>

----------------------------------------------------------------------------
(* Page-load plugin: createDocumentLoadPlugin.  The performance timeline   *)
(* holds the entries the browser has recorded; a PerformanceObserver is a  *)
(* record of `observers`, by handle, and its callback receives the entries *)
(* of its type it has not been given yet (observe is called with buffered: *)
(* true).  A span of this plugin carries its start and end time.           *)

\* location.href
LocationHref == "https://app.example.com/"

\* no time mark: the end time of a span that has not ended
NoTime == -1

\* the marks the browser records once the load event has been handled, once
\* the document is interactive, and once DOMContentLoaded has been handled
LoadEventEndMark == 1200
DomInteractiveMark == 700
DomContentLoadedMark == 800

\* the navigation entry of a page fetched over plain HTTP and of a page
\* reloaded over TLS, as recorded while the document is still loading
NavigationEntries ==
    { [type |-> "navigate", startTime |-> 0, redirectCount |-> 0,
       domainLookupStart |-> 10, domainLookupEnd |-> 30,
       connectStart |-> 30, connectEnd |-> 80, secureConnectionStart |-> 0,
       requestStart |-> 80, responseStart |-> 200, responseEnd |-> 260,
       domInteractive |-> 0, domContentLoadedEventEnd |-> 0, loadEventEnd |-> 0,
       transferSize |-> 5000, decodedBodySize |-> 12000],
      [type |-> "reload", startTime |-> 0, redirectCount |-> 1,
       domainLookupStart |-> 5, domainLookupEnd |-> 5,
       connectStart |-> 5, connectEnd |-> 95, secureConnectionStart |-> 40,
       requestStart |-> 100, responseStart |-> 180, responseEnd |-> 300,
       domInteractive |-> 0, domContentLoadedEventEnd |-> 0, loadEventEnd |-> 0,
       transferSize |-> 0, decodedBodySize |-> 12000] }

\* the paint entries the browser records, in the order it records them
PaintEntries ==
    << [name |-> "first-paint", startTime |-> 300],
       [name |-> "first-contentful-paint", startTime |-> 450] >>

\* the largest-contentful-paint candidates the browser records, in order;
\* the element of the second one has left the document
LcpEntries ==
    << [name |-> "", startTime |-> 500, size |-> 1000, element |-> [tagName |-> "IMG"]],
       [name |-> "", startTime |-> 900, size |-> 4000, element |-> Undefined] >>

\* what the browser offers: no PerformanceObserver at all, or one whose
\* observe() accepts the given entry types and throws on any other
Supports ==
    { [PerformanceObserver |-> FALSE, types |-> {}],
      [PerformanceObserver |-> TRUE, types |-> {}],
      [PerformanceObserver |-> TRUE, types |-> {"paint"}],
      [PerformanceObserver |-> TRUE, types |-> {"largest-contentful-paint"}],
      [PerformanceObserver |-> TRUE, types |-> {"paint", "largest-contentful-paint"}] }

\* performance.getEntriesByType(type)
GetEntriesByType(type) == timeline[type]

\* the closure state of the plugin, the window and the observers, with the
\* tracer, at the start of an operation
DocumentLoadState(trace) ==
    [spans |-> Tracer, calls |-> trace, observer |-> observer,
     observers |-> observers, loadListeners |-> loadListeners, threw |-> FALSE]

\* tracer.startSpan(name, {startTime, attributes})
TracerStartSpanAt(E, name, startTime, attributes) ==
    LET h == FreshHandle(DOMAIN E.spans)
    IN  [E EXCEPT !.spans = (h :> (NewSpan(name, attributes) @@
                                   [startTime |-> startTime, endTime |-> NoTime])) @@ @,
                  !.calls = Append(@, [op |-> "startSpan", span |-> h])]

\* span.end(endTime)
SpanEndAt(E, span, endTime) ==
    [E EXCEPT !.spans[span].ends = @ + 1,
              !.spans[span].endTime = IF E.spans[span].ends > 0 THEN @ ELSE endTime,
              !.calls = Append(@, [op |-> "end", span |-> span, endTime |-> endTime])]

\* the attributes of the document.load span
NavigationAttributes(navigation) ==
    [document_url |-> LocationHref,
     document_type |-> navigation.type,
     document_redirect_count |-> navigation.redirectCount,
     timing_dns_ms |-> navigation.domainLookupEnd - navigation.domainLookupStart,
     timing_connect_ms |-> navigation.connectEnd - navigation.connectStart,
     timing_tls_ms |-> IF navigation.secureConnectionStart > 0
                       THEN navigation.connectEnd - navigation.secureConnectionStart
                       ELSE 0,
     timing_ttfb_ms |-> navigation.responseStart - navigation.requestStart,
     timing_response_ms |-> navigation.responseEnd - navigation.responseStart,
     timing_dom_interactive_ms |-> navigation.domInteractive,
     timing_dom_content_loaded_ms |-> navigation.domContentLoadedEventEnd,
     timing_load_ms |-> navigation.loadEventEnd,
     transfer_size |-> navigation.transferSize,
     transfer_decoded_size |-> navigation.decodedBodySize]

\* const emitNavigationSpan
EmitNavigationSpan(D) ==
    LET entries == GetEntriesByType("navigation")
    IN  IF entries = <<>> THEN D
        ELSE LET navigation == entries[1]
                 S == TracerStartSpanAt(D, "document.load", navigation.startTime,
                                        NavigationAttributes(navigation))
             IN  SpanEndAt(S, LastSpan(S), navigation.loadEventEnd)

\* const emitPaintSpans
RECURSIVE EmitPaintSpans(_, _, _)
EmitPaintSpans(D, entries, navigationStart) ==
    IF entries = <<>> THEN D
    ELSE LET entry == Head(entries)
         IN  IF entry.name # "first-paint" /\ entry.name # "first-contentful-paint"
             THEN EmitPaintSpans(D, Tail(entries), navigationStart)
             ELSE LET S == TracerStartSpanAt(D, entry.name, navigationStart,
                               [document_url |-> LocationHref,
                                paint_duration_ms |-> entry.startTime])
                  IN  EmitPaintSpans(SpanEndAt(S, LastSpan(S), entry.startTime),
                                     Tail(entries), navigationStart)

\* const emitLcpSpan
EmitLcpSpan(D, entries, navigationStart) ==
    IF entries = <<>> THEN D
    ELSE LET lcp == entries[Len(entries)]
             S == TracerStartSpanAt(D, "largest-contentful-paint", navigationStart,
                      [document_url |-> LocationHref,
                       lcp_duration_ms |-> lcp.startTime,
                       lcp_element |-> IF lcp.element = Undefined THEN ""
                                       ELSE lcp.element.tagName,
                       lcp_size |-> lcp.size])
         IN  SpanEndAt(S, LastSpan(S), lcp.startTime)

\* window.addEventListener("load", () => emitNavigationSpan(), {once: true})
AddLoadListener(D) ==
    [D EXCEPT !.loadListeners = @ + 1,
              !.calls = Append(@, [op |-> "addEventListener", type |-> "load"])]

\* new PerformanceObserver(callback): the handle of the new observer is
\* Len(observers); the callback is named by the kind of the observer
NewPerformanceObserver(D, kind, navigationStart) ==
    [D EXCEPT !.observers = Append(@, [kind |-> kind, navigationStart |-> navigationStart,
                                       type |-> "", given |-> 0]),
              !.calls = Append(@, [op |-> "new PerformanceObserver", kind |-> kind])]

\* observer.observe({type, buffered: true})
Observe(D, o, type) ==
    IF type \in support.types
    THEN [D EXCEPT !.observers[o].type = type,
                   !.calls = Append(@, [op |-> "observe", observer |-> o, type |-> type])]
    ELSE [D EXCEPT !.threw = TRUE,
                   !.calls = Append(@, [op |-> "observe", observer |-> o, type |-> type,
                                        threw |-> "TypeError"])]

\* observer.disconnect()
Disconnect(D, o) ==
    [D EXCEPT !.observers[o].type = "",
              !.calls = Append(@, [op |-> "disconnect", observer |-> o])]

\* catch {}: the exception is dropped
Catch(D) == [D EXCEPT !.threw = FALSE]

\* the try block of the paint observer, and its empty catch
TryObservePaint(D, navigationStart) ==
    IF ~support.PerformanceObserver
    THEN Catch([D EXCEPT !.threw = TRUE,
                         !.calls = Append(@, [op |-> "new PerformanceObserver",
                                              kind |-> "paint",
                                              threw |-> "ReferenceError"])])
    ELSE LET N == NewPerformanceObserver(D, "paint", navigationStart)
         IN  Catch(Observe(N, Len(N.observers), "paint"))

\* how setup() or teardown() completes: it returns, or an exception that no
\* catch dropped leaves it
Completion(D) ==
    [D EXCEPT !.calls = Append(@, [op |-> IF D.threw THEN "throw" ELSE "return"])]

\* the largest-contentful-paint observer without the try and catch
TryObserveLcpNoCatch(D, navigationStart) ==
    IF ~support.PerformanceObserver
    THEN [D EXCEPT !.threw = TRUE,
                   !.calls = Append(@, [op |-> "new PerformanceObserver",
                                        kind |-> "lcp",
                                        threw |-> "ReferenceError"])]
    ELSE LET N == NewPerformanceObserver(D, "lcp", navigationStart)
             A == [N EXCEPT !.observer = Len(N.observers)]
         IN  Observe(A, A.observer, "largest-contentful-paint")

\* the try block of the largest-contentful-paint observer, and its empty
\* catch: `observer` is assigned before observe() is called
TryObserveLcp(D, navigationStart) ==
    IF ~support.PerformanceObserver
    THEN Catch([D EXCEPT !.threw = TRUE,
                         !.calls = Append(@, [op |-> "new PerformanceObserver",
                                              kind |-> "lcp",
                                              threw |-> "ReferenceError"])])
    ELSE LET N == NewPerformanceObserver(D, "lcp", navigationStart)
             A == [N EXCEPT !.observer = Len(N.observers)]
         IN  Catch(Observe(A, A.observer, "largest-contentful-paint"))

\* setup(tracer) without the test of document.readyState
DocumentLoadSetupBodyNoReadyStateTest(D) ==
    LET D1 == EmitNavigationSpan(D)
        entries == GetEntriesByType("navigation")
        navigationStart == IF entries = <<>> THEN 0 ELSE entries[1].startTime
        existingPaintEntries == GetEntriesByType("paint")
        D2 == IF Len(existingPaintEntries) > 0
              THEN EmitPaintSpans(D1, existingPaintEntries, navigationStart)
              ELSE TryObservePaint(D1, navigationStart)
    IN  Completion(IF D2.threw THEN D2 ELSE TryObserveLcp(D2, navigationStart))

\* createDocumentLoadPlugin().setup(tracer)
DocumentLoadSetupBody(D) ==
    LET D1 == IF readyState = "complete" THEN EmitNavigationSpan(D)
              ELSE AddLoadListener(D)
        entries == GetEntriesByType("navigation")
        navigationStart == IF entries = <<>> THEN 0 ELSE entries[1].startTime
        existingPaintEntries == GetEntriesByType("paint")
        D2 == IF Len(existingPaintEntries) > 0
              THEN EmitPaintSpans(D1, existingPaintEntries, navigationStart)
              ELSE TryObservePaint(D1, navigationStart)
    IN  Completion(IF D2.threw THEN D2 ELSE TryObserveLcp(D2, navigationStart))

\* createDocumentLoadPlugin().teardown()
DocumentLoadTeardownBody(D) ==
    LET D1 == IF D.observer # NoHandle THEN Disconnect(D, D.observer) ELSE D
    IN  Completion([D1 EXCEPT !.observer = NoHandle])

\* the callbacks without the disconnect() of the paint observer
ObserverCallbackBodyNoDisconnect(D, o, list) ==
    IF D.observers[o].kind = "paint"
    THEN EmitPaintSpans(D, list, D.observers[o].navigationStart)
    ELSE EmitLcpSpan(D, list, D.observers[o].navigationStart)

\* the callback of observer o, given the entries `list`
ObserverCallbackBody(D, o, list) ==
    IF D.observers[o].kind = "paint"
    THEN Disconnect(EmitPaintSpans(D, list, D.observers[o].navigationStart), o)
    ELSE EmitLcpSpan(D, list, D.observers[o].navigationStart)

\* the load listeners run, each once, and are removed
RECURSIVE DispatchLoad(_)
DispatchLoad(D) ==
    IF D.loadListeners = 0 THEN D
    ELSE DispatchLoad(EmitNavigationSpan([D EXCEPT !.loadListeners = @ - 1]))

SetPage(D) ==
    /\ spans' = D.spans
    /\ calls' = D.calls
    /\ observer' = D.observer
    /\ observers' = D.observers
    /\ loadListeners' = D.loadListeners

DocumentLoadSetup ==
    /\ "document-load" \in plugins
    /\ setups < MaxSetups
    /\ setups' = setups + 1
    /\ SetPage(DocumentLoadSetupBody(
                   DocumentLoadState(<<[op |-> "setup", plugin |-> "document-load",
                                        readyState |-> readyState]>>)))
    /\ UNCHANGED <<plugins, readyState, loadDispatched, timeline, support,
                   initVars, httpVars,
                   cacheVars, routerVars>>

DocumentLoadTeardown ==
    /\ "document-load" \in plugins
    /\ SetPage(DocumentLoadTeardownBody(
                   DocumentLoadState(<<[op |-> "teardown", plugin |-> "document-load"]>>)))
    /\ UNCHANGED <<plugins, setups, readyState, loadDispatched, timeline, support,
                   initVars, httpVars,
                   cacheVars, routerVars>>

\* the document becomes interactive, then complete; the browser records the
\* marks of the navigation entry as it goes
DocumentReadyStateChange ==
    /\ "document-load" \in plugins
    /\ readyState # "complete"
    /\ readyState' = IF readyState = "loading" THEN "interactive" ELSE "complete"
    /\ timeline' =
           IF timeline.navigation = <<>> THEN timeline
           ELSE IF readyState = "loading"
                THEN [timeline EXCEPT !.navigation[1].domInteractive = DomInteractiveMark]
                ELSE [timeline EXCEPT !.navigation[1].domContentLoadedEventEnd =
                                          DomContentLoadedMark]
    /\ calls' = <<[op |-> "readystatechange"]>>
    /\ spans' = Tracer
    /\ UNCHANGED <<plugins, setups, loadDispatched, support, observer, observers,
                   loadListeners, initVars, httpVars,
                   cacheVars, routerVars>>

\* the window load event: the listeners run while loadEventEnd is still
\* unset, and the browser records it when they have returned
WindowLoad ==
    /\ "document-load" \in plugins
    /\ readyState = "complete"
    /\ ~loadDispatched
    /\ loadDispatched' = TRUE
    /\ SetPage(DispatchLoad(DocumentLoadState(<<[op |-> "load",
                                                 listeners |-> loadListeners]>>)))
    /\ timeline' = IF timeline.navigation = <<>> THEN timeline
                   ELSE [timeline EXCEPT !.navigation[1].loadEventEnd = LoadEventEndMark]
    /\ UNCHANGED <<plugins, setups, readyState, support, initVars, httpVars,
                   cacheVars, routerVars>>

\* the browser records the next paint entry
PaintRecorded ==
    /\ "document-load" \in plugins
    /\ Len(timeline.paint) < Len(PaintEntries)
    /\ timeline' = [timeline EXCEPT !.paint = Append(@, PaintEntries[Len(@) + 1])]
    /\ calls' = <<[op |-> "paint"]>>
    /\ spans' = Tracer
    /\ UNCHANGED <<plugins, setups, readyState, loadDispatched, support, observer,
                   observers, loadListeners, initVars, httpVars,
                   cacheVars, routerVars>>

\* the browser records the next largest-contentful-paint candidate
LcpRecorded ==
    /\ "document-load" \in plugins
    /\ "largest-contentful-paint" \in support.types
    /\ Len(timeline["largest-contentful-paint"]) < Len(LcpEntries)
    /\ timeline' = [timeline EXCEPT !["largest-contentful-paint"] =
                                        Append(@, LcpEntries[Len(@) + 1])]
    /\ calls' = <<[op |-> "largest-contentful-paint"]>>
    /\ spans' = Tracer
    /\ UNCHANGED <<plugins, setups, readyState, loadDispatched, support, observer,
                   observers, loadListeners, initVars, httpVars,
                   cacheVars, routerVars>>

\* the browser calls the callback of an observer that is observing, with the
\* entries of its type it has not given it yet
ObserverCallback(o) ==
    /\ "document-load" \in plugins
    /\ observers[o].type # ""
    /\ observers[o].given < Len(timeline[observers[o].type])
    /\ LET type == observers[o].type
           list == SubSeq(timeline[type], observers[o].given + 1, Len(timeline[type]))
           D == DocumentLoadState(<<[op |-> "callback", observer |-> o, list |-> list]>>)
       IN  SetPage(ObserverCallbackBody(
                       [D EXCEPT !.observers[o].given = Len(timeline[type])], o, list))
    /\ UNCHANGED <<plugins, setups, readyState, loadDispatched, timeline, support,
                   initVars, httpVars,
                   cacheVars, routerVars>>

----------------------------------------------------------------------------
(* initialize and the attribute span processor.  The plugins of the        *)
(* configuration are taken through their interface only: setup(tracer)     *)
(* activates one and teardown() deactivates it.  The provider calls        *)
(* onStart of its span processors, in the order of the list, when the      *)
(* tracer starts a span, and onEnd when the span ends.                     *)

\* the plugin instances an application passes
PluginIds == {"a", "b"}

\* config.plugins: undefined, or a list of plugin instances, where one
\* instance may occur twice
PluginLists ==
    { <<>>, <<"a">>, <<"a", "b">>, <<"b", "a">>, <<"a", "a">>,
      <<"a", "b", "a">>, <<"b", "a", "b">> }

\* the values of config.plugins
PluginsOptions ==
    {Undefined} \cup { Array(p) : p \in { q \in PluginLists : Len(q) <= MaxPlugins } }

\* the configurations: with or without config.getSpanAttributes
Configs ==
    { [plugins |-> l, getSpanAttributes |-> g] : l \in PluginsOptions, g \in BOOLEAN }

\* the user the attribute supplier reads: none before login
NoUser == ""
Users == {NoUser, "alice", "bob"}

\* config.getSpanAttributes(), as the README writes it
GetSpanAttributes == IF session = NoUser THEN <<>> ELSE ("user.id" :> session)

\* the attributes the application starts its spans with
StartAttributes == { <<>>, ("user.id" :> "anonymous") }

\* the state initialize and the provider work on, at the start of an operation
InitializerState(trace) ==
    [spans |-> Tracer, calls |-> trace, pluginState |-> pluginState,
     provider |-> provider]

\* config.plugins ?? []
PluginsOf(cfg) == IF cfg.plugins = Undefined THEN <<>> ELSE cfg.plugins.array

\* the span processors initialize hands to the provider
SpanProcessors(cfg) ==
    (IF cfg.getSpanAttributes THEN <<"attribute">> ELSE <<>>) \o <<"batch">>

\* plugin.setup(tracer) and plugin.teardown(), of a plugin behind the interface
PluginSetup(I, p) ==
    [I EXCEPT !.pluginState[p] = "active",
              !.calls = Append(@, [op |-> "setup", plugin |-> p])]

PluginTeardown(I, p) ==
    [I EXCEPT !.pluginState[p] = "inactive",
              !.calls = Append(@, [op |-> "teardown", plugin |-> p])]

\* for (const plugin of plugins) plugin.setup(tracer)
RECURSIVE SetupLoop(_, _)
SetupLoop(I, list) ==
    IF list = <<>> THEN I ELSE SetupLoop(PluginSetup(I, Head(list)), Tail(list))

\* for (const plugin of plugins) plugin.teardown()
RECURSIVE TeardownLoop(_, _)
TeardownLoop(I, list) ==
    IF list = <<>> THEN I ELSE TeardownLoop(PluginTeardown(I, Head(list)), Tail(list))

\* provider.register() and provider.shutdown()
ProviderRegister(I, cfg) ==
    [I EXCEPT !.provider = "registered",
              !.calls = Append(@, [op |-> "register",
                                   spanProcessors |-> SpanProcessors(cfg)])]

ProviderShutdown(I) ==
    [I EXCEPT !.provider = "shutdown", !.calls = Append(@, [op |-> "shutdown"])]

\* initialize(config), up to its return
InitializeBody(I, cfg) == SetupLoop(ProviderRegister(I, cfg), PluginsOf(cfg))

\* the teardown function initialize returns, without the provider shutdown
InitializeTeardownBodyNoShutdown(I, cfg) == TeardownLoop(I, PluginsOf(cfg))

\* the teardown function initialize returns
InitializeTeardownBody(I, cfg) == ProviderShutdown(TeardownLoop(I, PluginsOf(cfg)))

\* onStart of the attribute span processor, calling the supplier twice
AttributeOnStartTwice(E, span) ==
    LET G == [E EXCEPT !.calls = Append(Append(@,
                                     [op |-> "getAttributes", returned |-> GetSpanAttributes]),
                                     [op |-> "getAttributes", returned |-> GetSpanAttributes])]
    IN  SpanSetAttributes(G, span, GetSpanAttributes)

\* onStart of the attribute span processor
AttributeOnStart(E, span) ==
    LET G == [E EXCEPT !.calls = Append(@, [op |-> "getAttributes",
                                            returned |-> GetSpanAttributes])]
    IN  SpanSetAttributes(G, span, GetSpanAttributes)

\* onEnd of the attribute span processor
AttributeOnEnd(E, span) == E

\* the provider calls onStart, or onEnd, of its processors in order; the
\* batch processor of the SDK touches no span
RECURSIVE OnStart(_, _, _)
OnStart(E, processors, span) ==
    IF processors = <<>> THEN E
    ELSE LET C == [E EXCEPT !.calls = Append(@, [op |-> "onStart",
                                                 processor |-> Head(processors),
                                                 span |-> span])]
         IN  OnStart(IF Head(processors) = "attribute" THEN AttributeOnStart(C, span)
                     ELSE C,
                     Tail(processors), span)

RECURSIVE OnEnd(_, _, _)
OnEnd(E, processors, span) ==
    IF processors = <<>> THEN E
    ELSE LET C == [E EXCEPT !.calls = Append(@, [op |-> "onEnd",
                                                 processor |-> Head(processors),
                                                 span |-> span])]
         IN  OnEnd(IF Head(processors) = "attribute" THEN AttributeOnEnd(C, span)
                   ELSE C,
                   Tail(processors), span)

SetInitializer(I) ==
    /\ spans' = I.spans
    /\ calls' = I.calls
    /\ pluginState' = I.pluginState
    /\ provider' = I.provider

\* the application calls initialize(config), once
Initialize(cfg) ==
    /\ "initialize" \in plugins
    /\ provider = "none"
    /\ config' = cfg
    /\ SetInitializer(InitializeBody(
                          InitializerState(<<[op |-> "initialize", config |-> cfg]>>), cfg))
    /\ UNCHANGED <<plugins, session, appSpans, pageVars, httpVars, cacheVars, routerVars>>

\* the application calls the function initialize returned
InitializeTeardown ==
    /\ "initialize" \in plugins
    /\ provider # "none"
    /\ SetInitializer(InitializeTeardownBody(
                          InitializerState(<<[op |-> "teardown all"]>>), config))
    /\ UNCHANGED <<plugins, config, session, appSpans, pageVars, httpVars, cacheVars,
                   routerVars>>

\* the user logs in, or out: the supplier reads another value from now on
SessionChange(user) ==
    /\ "initialize" \in plugins
    /\ user # session
    /\ session' = user
    /\ calls' = <<[op |-> "session", user |-> user]>>
    /\ spans' = Tracer
    /\ UNCHANGED <<plugins, config, provider, pluginState, appSpans, pageVars, httpVars,
                   cacheVars, routerVars>>

\* a plugin or the application starts a span with the tracer, and keeps it
StartSpan(attributes) ==
    LET E == TracerStartSpan([spans |-> Tracer,
                              calls |-> <<[op |-> "tracer.startSpan",
                                           attributes |-> attributes]>>],
                             "work", attributes)
        R == OnStart(E, SpanProcessors(config), LastSpan(E))
    IN  /\ "initialize" \in plugins
        /\ provider = "registered"
        /\ Cardinality(appSpans) < MaxSpans
        /\ appSpans' = appSpans \cup {LastSpan(E)}
        /\ spans' = R.spans
        /\ calls' = R.calls
        /\ UNCHANGED <<plugins, config, provider, pluginState, session, pageVars, httpVars,
                       cacheVars, routerVars>>

\* the holder of a span ends it, and drops it
EndSpan(span) ==
    LET E == SpanEnd([spans |-> Tracer, calls |-> <<[op |-> "span.end", span |-> span]>>],
                     span)
        R == OnEnd(E, SpanProcessors(config), span)
    IN  /\ "initialize" \in plugins
        /\ span \in appSpans
        /\ appSpans' = appSpans \ {span}
        /\ spans' = R.spans
        /\ calls' = R.calls
        /\ UNCHANGED <<plugins, config, provider, pluginState, session, pageVars, httpVars,
                       cacheVars, routerVars>>

----------------------------------------------------------------------------
(* Specifications *)

\* the state after the plugin factories have run and before any setup()
Created ==
    /\ spans = <<>>
    /\ calls = <<[op |-> "create"]>>
    /\ unsubQueryCache = NoHandle
    /\ unsubMutationCache = NoHandle
    /\ querySpans = <<>>
    /\ mutationSpans = <<>>
    /\ queryListeners = {}
    /\ mutationListeners = {}
    /\ unsubBeforeNavigate = NoHandle
    /\ unsubResolved = NoHandle
    /\ activeSpan = NoSpan
    /\ beforeNavigateListeners = {}
    /\ resolvedListeners = {}
    /\ fetchFn = NativeFetch
    /\ xhrOpenFn = NativeXhrOpen
    /\ xhrSendFn = NativeXhrSend
    /\ originalFetch = [i \in Instances |-> Undefined]
    /\ originalXhrOpen = [i \in Instances |-> Undefined]
    /\ originalXhrSend = [i \in Instances |-> Undefined]
    /\ pending = {}
    /\ xhr = NewXhr
    /\ setups = 0
    /\ observer = NoHandle
    /\ observers = <<>>
    /\ loadListeners = 0
    /\ config = Undefined
    /\ provider = "none"
    /\ pluginState = [p \in PluginIds |-> "created"]
    /\ session = NoUser
    /\ appSpans = {}

\* the document, window and timeline of an application that does not install
\* the page-load plugin: nothing of them is read
NoPage ==
    /\ readyState = "complete"
    /\ loadDispatched = TRUE
    /\ timeline = [type \in {"navigation", "paint", "largest-contentful-paint"} |-> <<>>]
    /\ support = [PerformanceObserver |-> FALSE, types |-> {}]

\* an application installs the data-fetch cache plugin or the navigation plugin
Init ==
    /\ plugins \in {{"query"}, {"router"}}
    /\ api = "none"
    /\ Created
    /\ NoPage

Next ==
    \/ QuerySetup
    \/ \E event \in QueryCacheEvents : QueryCacheNotify(event)
    \/ \E event \in MutationCacheEvents : MutationCacheNotify(event)
    \/ QueryTeardown
    \/ RouterSetup
    \/ \E event \in NavigationEvents : RouterBeforeNavigate(event)
    \/ RouterResolved
    \/ RouterTeardown

Spec == Init /\ [][Next]_vars

\* an application creates HTTP plugin instances and makes its requests with
\* fetch or with XMLHttpRequest
InitHttp ==
    /\ plugins = {"http"}
    /\ api \in {"fetch", "xhr"}
    /\ Created
    /\ NoPage

NextHttp ==
    \/ \E i \in Instances : FetchPluginSetup(i)
    \/ \E i \in Instances : FetchPluginTeardown(i)
    \/ \E args \in FetchArguments, carrier \in Carriers, overflow \in Overflows :
          Fetch(args[1], args[2], carrier, overflow)
    \/ \E awaiting \in pending, outcome \in Outcomes : FetchSettle(awaiting, outcome)
    \/ XhrNew
    \/ \E args \in XhrOpenArguments, overflow \in Overflows :
          XhrOpen(args[1], args[2], overflow)
    \/ \E body \in XhrBodies, carrier \in Carriers, overflow \in Overflows :
          XhrSend(body, carrier, overflow)
    \/ \E outcome \in XhrOutcomes : XhrSettle(outcome)

SpecHttp == InitHttp /\ [][NextHttp]_vars

\* an application installs the page-load plugin while its document loads, in
\* a browser that records a navigation entry or none
InitLoad ==
    /\ plugins = {"document-load"}
    /\ api = "none"
    /\ Created
    /\ readyState = "loading"
    /\ loadDispatched = FALSE
    /\ \E navigation \in {<<>>} \cup { <<n>> : n \in NavigationEntries } :
           timeline = [type \in {"navigation", "paint", "largest-contentful-paint"} |->
                           IF type = "navigation" THEN navigation ELSE <<>>]
    /\ support \in Supports

NextLoad ==
    \/ DocumentLoadSetup
    \/ DocumentLoadTeardown
    \/ DocumentReadyStateChange
    \/ WindowLoad
    \/ PaintRecorded
    \/ LcpRecorded
    \/ \E o \in DOMAIN observers : ObserverCallback(o)

SpecLoad == InitLoad /\ [][NextLoad]_vars

\* an application calls initialize with plugins behind the interface, and
\* spans are started and ended with the tracer over a session
InitInitialize ==
    /\ plugins = {"initialize"}
    /\ api = "none"
    /\ Created
    /\ NoPage

NextInitialize ==
    \/ \E cfg \in Configs : Initialize(cfg)
    \/ InitializeTeardown
    \/ \E user \in Users : SessionChange(user)
    \/ \E attributes \in StartAttributes : StartSpan(attributes)
    \/ \E span \in appSpans : EndSpan(span)

SpecInitialize == InitInitialize /\ [][NextInitialize]_vars

----------------------------------------------------------------------------
(* Reading a trace and a step *)

\* the calls of a trace, after the entry that names the operation
Effects(trace) == Tail(trace)

\* how many calls of a trace satisfy op = o on span handle h
CountOn(trace, o, h) ==
    Cardinality({ i \in DOMAIN trace : i > 1 /\ trace[i].op = o /\ trace[i].span = h })

\* how many calls of a trace are `o`
CountOp(trace, o) ==
    Cardinality({ i \in DOMAIN trace : i > 1 /\ trace[i].op = o })

\* a span nothing has been called on since startSpan
Fresh(span) == span.status = StatusUnset /\ span.exceptions = <<>> /\ span.ends = 0

\* event is an "updated" event whose action is of the given type
Updated(event, type) ==
    event.type = "updated" /\ event.action # Undefined /\ event.action.type = type

\* the step is the query cache notifying its listeners of an event of that type
QueryStep(type) ==
    /\ calls'[1].op = "queryEvent"
    /\ Updated(calls'[1].event, type)
    /\ queryListeners # {}

\* the step is the mutation cache notifying its listeners of an event of that
\* type about some mutation
MutationStep(type) ==
    /\ calls'[1].op = "mutationEvent"
    /\ Updated(calls'[1].event, type)
    /\ calls'[1].event.mutation # Undefined
    /\ mutationListeners # {}

\* the step leaves every span of the pre-state that it keeps as it was, and
\* adds none
SpansUntouched ==
    /\ DOMAIN spans' \subseteq DOMAIN spans
    /\ \A h \in DOMAIN spans' : spans'[h] = spans[h]

----------------------------------------------------------------------------
(* C1 *)

\* the start event of C1 on table `table` (its next value `table2`) and key k
C1_Start(table, table2, k) ==
    /\ MapHas(table2, k)
    /\ Fresh(spans'[MapGet(table2, k)])
    /\ CountOp(calls', "startSpan") = (IF MapHas(table, k) THEN 0 ELSE 1)
    /\ Len(calls') = 1 + CountOp(calls', "startSpan")

\* the success event of C1 on a key k whose span is open
C1_Success(table, table2, k) ==
    LET s == MapGet(table, k)
    IN  /\ Fresh(spans[s])
        /\ Effects(calls') = << [op |-> "setStatus", span |-> s, status |-> StatusOk],
                                [op |-> "end", span |-> s] >>
        /\ spans'[s].status = StatusOk
        /\ spans'[s].ends = 1
        /\ ~MapHas(table2, k)

\* between the two events: a step that is neither a terminal event on k nor
\* teardown() keeps k's span handle and leaves the span as it was
C1_Kept(table, table2, k) ==
    /\ MapGet(table2, k) = MapGet(table, k)
    /\ spans'[MapGet(table, k)] = spans[MapGet(table, k)]

\* C1: after setup, a start event ("fetch" on a query hash, "pending" on a
\* mutation id) makes one startSpan call when the key has no open span and
\* none when it has one, and leaves the key with an open span nothing was
\* called on; the span stays so until a terminal event on the key or
\* teardown(); a following "success" event on the key calls setStatus(OK) and
\* then end() on that span, once each, and removes the key from its table.
C1_StartSuccessEndsOk ==
    [][ /\ QueryStep("fetch") =>
              C1_Start(querySpans, querySpans', calls'[1].event.query.queryHash)
        /\ MutationStep("pending") =>
              C1_Start(mutationSpans, mutationSpans', calls'[1].event.mutation.mutationId)
        /\ (QueryStep("success")
              /\ MapHas(querySpans, calls'[1].event.query.queryHash)) =>
              C1_Success(querySpans, querySpans', calls'[1].event.query.queryHash)
        /\ (MutationStep("success")
              /\ MapHas(mutationSpans, calls'[1].event.mutation.mutationId)) =>
              C1_Success(mutationSpans, mutationSpans',
                         calls'[1].event.mutation.mutationId)
        /\ \A k \in MapKeys(querySpans) :
              ~( \/ calls'[1].op = "teardown"
                 \/ (\E t \in {"success", "error"} : QueryStep(t))
                      /\ calls'[1].event.query.queryHash = k ) =>
              C1_Kept(querySpans, querySpans', k)
        /\ \A k \in MapKeys(mutationSpans) :
              ~( \/ calls'[1].op = "teardown"
                 \/ (\E t \in {"success", "error"} : MutationStep(t))
                      /\ calls'[1].event.mutation.mutationId = k ) =>
              C1_Kept(mutationSpans, mutationSpans', k)
      ]_vars

\* the scenario of C1: a "success" event on hash "q1" has just ended the span
\* "query [\"todos\"]" with status OK, and the query table is empty
C1_Witness ==
    /\ calls[1].op = "queryEvent"
    /\ Updated(calls[1].event, "success")
    /\ calls[1].event.query.queryHash = "q1"
    /\ Len(calls) = 3
    /\ calls[3].op = "end"
    /\ spans[calls[3].span].name = "query [\"todos\"]"
    /\ spans[calls[3].span].status = StatusOk
    /\ spans[calls[3].span].ends = 1
    /\ querySpans = <<>>

----------------------------------------------------------------------------
(* C2 *)

\* error values that carry a message
HasMessage(error) == error.kind \in {"Error", "object"}

\* the "error" event of C2 on a key k whose span is open, the span ending with
\* status `status`
C2_Error(table, table2, k, error, status) ==
    LET s == MapGet(table, k)
    IN  /\ Fresh(spans[s])
        /\ CountOp(calls', "startSpan") = 0
        /\ Effects(calls')[1] = [op |-> "setStatus", span |-> s, status |-> status]
        /\ CountOn(calls', "setStatus", s) = 1
        /\ CountOn(calls', "end", s) = 1
        /\ calls'[Len(calls')] = [op |-> "end", span |-> s]
        /\ CountOn(calls', "recordException", s) = (IF error.kind = "Error" THEN 1 ELSE 0)
        /\ spans'[s].status = status
        /\ spans'[s].exceptions = (IF error.kind = "Error" THEN <<error>> ELSE <<>>)
        /\ spans'[s].ends = 1
        /\ ~MapHas(table2, k)

\* C2 as stated: an "error" event on a key whose span is open ends the span
\* with status ERROR whose message is the message of the error the event
\* carries, for every error value that has a message.
C2_MessageOfEveryError ==
    [][ /\ (QueryStep("error")
              /\ MapHas(querySpans, calls'[1].event.query.queryHash)
              /\ HasMessage(calls'[1].event.action.error)) =>
              spans'[MapGet(querySpans, calls'[1].event.query.queryHash)].status
                  = StatusError(calls'[1].event.action.error.message)
        /\ (MutationStep("error")
              /\ MapHas(mutationSpans, calls'[1].event.mutation.mutationId)
              /\ HasMessage(calls'[1].event.action.error)) =>
              spans'[MapGet(mutationSpans, calls'[1].event.mutation.mutationId)].status
                  = StatusError(calls'[1].event.action.error.message)
      ]_vars

\* the status C2 as amended expects for an error value
C2_Status(error) ==
    IF error.kind = "Error" THEN [code |-> "ERROR", message |-> error.message]
    ELSE [code |-> "ERROR", message |-> "Unknown error"]

\* C2 as amended: an "error" event on a key whose span is open starts no
\* span, calls setStatus(ERROR) on the open span once, with the error's
\* message when the error is an Error instance and with "Unknown error" for
\* any other value, calls recordException exactly when it is an Error
\* instance, then calls end() once, and removes the key from its table.
C2_StartErrorEndsError ==
    [][ /\ (QueryStep("error")
              /\ MapHas(querySpans, calls'[1].event.query.queryHash)) =>
              C2_Error(querySpans, querySpans', calls'[1].event.query.queryHash,
                       calls'[1].event.action.error,
                       C2_Status(calls'[1].event.action.error))
        /\ (MutationStep("error")
              /\ MapHas(mutationSpans, calls'[1].event.mutation.mutationId)) =>
              C2_Error(mutationSpans, mutationSpans',
                       calls'[1].event.mutation.mutationId,
                       calls'[1].event.action.error,
                       C2_Status(calls'[1].event.action.error))
      ]_vars

\* an "error" event carrying an Error instance has just ended the span of
\* mutation 2 with the error's message and the exception recorded
C2_Witness ==
    /\ calls[1].op = "mutationEvent"
    /\ Updated(calls[1].event, "error")
    /\ calls[1].event.action.error.kind = "Error"
    /\ Len(calls) = 4
    /\ calls[4].op = "end"
    /\ spans[calls[4].span].name = "mutation [\"addTodo\"]"
    /\ spans[calls[4].span].status = StatusError("Network down")
    /\ spans[calls[4].span].ends = 1
    /\ ~MapHas(mutationSpans, 2)

----------------------------------------------------------------------------
(* C3 *)

\* C3: a start event for a key that already has an open span makes no call at
\* all (no startSpan, nothing on the open span), and leaves the table, with
\* its one entry for the key and the handle in it, and the span as they were.
C3_DuplicateStartNoOp ==
    [][ /\ (QueryStep("fetch")
              /\ MapHas(querySpans, calls'[1].event.query.queryHash)) =>
              /\ Len(calls') = 1
              /\ querySpans' = querySpans
              /\ Cardinality({ i \in DOMAIN querySpans' :
                    querySpans'[i].key = calls'[1].event.query.queryHash }) = 1
              /\ SpansUntouched
        /\ (MutationStep("pending")
              /\ MapHas(mutationSpans, calls'[1].event.mutation.mutationId)) =>
              /\ Len(calls') = 1
              /\ mutationSpans' = mutationSpans
              /\ Cardinality({ i \in DOMAIN mutationSpans' :
                    mutationSpans'[i].key = calls'[1].event.mutation.mutationId }) = 1
              /\ SpansUntouched
      ]_vars

\* a second "fetch" event for hash "q1" has arrived while its span is open
C3_Witness ==
    /\ calls[1].op = "queryEvent"
    /\ Updated(calls[1].event, "fetch")
    /\ calls[1].event.query.queryHash = "q1"
    /\ queryListeners # {}
    /\ Len(calls) = 1
    /\ MapHas(querySpans, "q1")
    /\ Fresh(spans[MapGet(querySpans, "q1")])

----------------------------------------------------------------------------
(* C4 *)

\* the step makes no call (on a span, on the tracer, none that throws) and
\* leaves the spans, both tables and the active navigation span as they were
C4_NoOp ==
    /\ Len(calls') = 1
    /\ SpansUntouched
    /\ querySpans' = querySpans
    /\ mutationSpans' = mutationSpans
    /\ activeSpan' = activeSpan

\* C4: a "success" or "error" event for a query hash or a mutation id that has
\* no open span, and an onResolved event while no navigation span is active,
\* make no call on any span, start no span, throw nothing, and leave both
\* tables and the active-span slot unchanged.
C4_TerminalWithoutSpanNoOp ==
    [][ /\ \A t \in {"success", "error"} :
              (QueryStep(t) /\ ~MapHas(querySpans, calls'[1].event.query.queryHash))
                  => C4_NoOp
        /\ \A t \in {"success", "error"} :
              (MutationStep(t)
                 /\ ~MapHas(mutationSpans, calls'[1].event.mutation.mutationId))
                  => C4_NoOp
        /\ (calls'[1].op = "onResolved" /\ activeSpan = NoSpan) => C4_NoOp
      ]_vars

\* an "error" event has arrived for mutation 1, which has no open span, while
\* mutation 2 has one
C4_Witness ==
    /\ calls[1].op = "mutationEvent"
    /\ Updated(calls[1].event, "error")
    /\ calls[1].event.mutation # Undefined
    /\ calls[1].event.mutation.mutationId = 1
    /\ mutationListeners # {}
    /\ Len(calls) = 1
    /\ MapKeys(mutationSpans) = {2}

----------------------------------------------------------------------------
(* C5 *)

\* C5: teardown() of the data-fetch cache plugin calls end() once on every
\* span of the query table and of the mutation table, and makes no other call
\* on a span; it leaves both tables empty; and once setup() has run it calls
\* both unsubscribe handles, once each, so that neither cache holds their
\* listeners afterwards.
C5_TeardownEndsAll ==
    [][ (calls'[1].op = "teardown" /\ calls'[1].plugin = "query") =>
          /\ \A h \in MapRange(querySpans) \cup MapRange(mutationSpans) :
                /\ CountOn(calls', "end", h) = 1
                /\ spans'[h] = [spans[h] EXCEPT !.ends = 1]
          /\ \A i \in DOMAIN calls' :
                i > 1 =>
                  \/ /\ calls'[i].op = "end"
                     /\ calls'[i].span \in MapRange(querySpans) \cup MapRange(mutationSpans)
                  \/ calls'[i].op = "unsubscribe"
          /\ querySpans' = <<>>
          /\ mutationSpans' = <<>>
          /\ unsubQueryCache # NoHandle =>
                /\ Cardinality({ i \in DOMAIN calls' :
                      calls'[i] = [op |-> "unsubscribe", source |-> "queryCache",
                                   handle |-> unsubQueryCache] }) = 1
                /\ Cardinality({ i \in DOMAIN calls' :
                      calls'[i] = [op |-> "unsubscribe", source |-> "mutationCache",
                                   handle |-> unsubMutationCache] }) = 1
                /\ CountOp(calls', "unsubscribe") = 2
                /\ unsubQueryCache \notin queryListeners'
                /\ unsubMutationCache \notin mutationListeners'
      ]_vars

\* teardown() has just run with a query span and a mutation span open: both
\* are ended, both handles were called, both tables are empty
C5_Witness ==
    /\ calls[1].op = "teardown"
    /\ calls[1].plugin = "query"
    /\ CountOp(calls, "unsubscribe") = 2
    /\ \E i, j \in DOMAIN calls :
          /\ i > 1 /\ j > 1
          /\ calls[i].op = "end" /\ calls[j].op = "end"
          /\ spans[calls[i].span].name = "query [\"todo\",7]"
          /\ spans[calls[j].span].name = "mutation 1"
          /\ spans[calls[i].span].ends = 1
          /\ spans[calls[j].span].ends = 1
    /\ querySpans = <<>>
    /\ mutationSpans = <<>>

----------------------------------------------------------------------------
(* Reading the trace of a request: the application's call runs as frame 1, *)
(* the function frame 1 calls runs as frame 2                              *)

\* the entries of a trace where a callee starts running as frame f
CallsOf(trace, f) ==
    { k \in DOMAIN trace : k > 1 /\ trace[k].op = "call" /\ trace[k].frame = f }

\* the entries of a trace where frame f returns or an exception leaves it
EndsOf(trace, f) ==
    { k \in DOMAIN trace :
        k > 1 /\ trace[k].op \in {"return", "throw"} /\ trace[k].frame = f }

\* two frames end the same way: the same value returned, or the same error
SameOutcome(a, b) ==
    /\ a.op = b.op
    /\ IF a.op = "return" THEN a.value = b.value ELSE a.error = b.error

\* frame 1 does nothing but call `original` once with `args` and end as that
\* call ends
PassesThrough(trace, patched, original, args) ==
    LET n == Len(trace)
        last == IF trace[n].frame = 0 THEN n - 1 ELSE n
    IN  /\ trace[2] = [op |-> "call", fn |-> patched, frame |-> 1, args |-> args]
        /\ trace[3] = [op |-> "call", fn |-> original, frame |-> 2, args |-> args]
        /\ CallsOf(trace, 2) = {3}
        /\ EndsOf(trace, 2) = {last - 1}
        /\ EndsOf(trace, 1) = {last}
        /\ SameOutcome(trace[last - 1], trace[last])
        /\ original \in {NativeFetch, NativeXhrSend} =>
               /\ CountOp(trace, "startSpan") = 0
               /\ last = 5

\* the request object was opened through the installed open wrapper: the URL
\* and method recorded on it are those of the request
Recorded ==
    /\ xhr.__otel_url # NoUrl
    /\ xhr.__otel_url = xhr.url
    /\ xhr.__otel_method = xhr.method

\* the last operation was a fetch through the wrapper of an instance that is
\* set up, with a URL its ignoreUrls match / do not match
FetchThrough(i, ignored) ==
    /\ calls[1].op = "fetch"
    /\ fetchFn = Wrapper(i, "fetch")
    /\ originalFetch[i] # Undefined
    /\ MatchesAny(ResolveUrl(calls[1].input), IgnoreUrls(i)) = ignored

\* the last operation was a send through the wrapper of an instance that is
\* set up, of a request opened through it
SendThrough(i, ignored) ==
    /\ calls[1].op = "send"
    /\ xhrSendFn = Wrapper(i, "send")
    /\ originalXhrSend[i] # Undefined
    /\ Recorded
    /\ MatchesAny(xhr.url, IgnoreUrls(i)) = ignored

----------------------------------------------------------------------------
(* C6 *)

\* C6: while an instance of the HTTP plugin is set up, a fetch or an XHR
\* send through its wrapper whose resolved URL matches one of its ignoreUrls
\* starts no span in the wrapper: the wrapper calls its original exactly
\* once, with the caller's arguments, and ends as that call ends, returning
\* its result unchanged
C6_IgnoredPassThrough ==
    \A i \in Instances :
        /\ FetchThrough(i, TRUE) =>
               PassesThrough(calls, fetchFn, originalFetch[i],
                             <<calls[1].input, calls[1].init>>)
        /\ SendThrough(i, TRUE) =>
               PassesThrough(calls, xhrSendFn, originalXhrSend[i], <<calls[1].body>>)

\* an ignored fetch and an ignored send reached the native functions
C6_Witness ==
    \E i \in Instances :
        \/ FetchThrough(i, TRUE) /\ originalFetch[i] = NativeFetch
               /\ calls[1].init # Undefined /\ Len(calls) = 5
        \/ SendThrough(i, TRUE) /\ originalXhrSend[i] = NativeXhrSend
               /\ calls[1].body = "payload" /\ xhr.readyState = "SENT"

----------------------------------------------------------------------------
(* C7 *)

\* the headers a carrier's entries must show up in
HeadersHave(headers, carrier) ==
    \A m \in DOMAIN carrier :
        \E k \in DOMAIN headers :
            headers[k] = [name |-> carrier[m].key, value |-> carrier[m].value]

\* the calls frame 1 makes before it calls its original
Before(trace, o) ==
    { k \in DOMAIN trace : k > 1 /\ trace[k].op = o /\ \A c \in CallsOf(trace, 2) : k < c }

\* the init argument of the call frame 1 makes to its original
Outgoing(trace) == trace[CHOOSE c \in CallsOf(trace, 2) : TRUE].args[2]

C7_Fetch(i) ==
    LET init == calls[1].init
        url == ResolveUrl(calls[1].input)
    IN  /\ Cardinality(CallsOf(calls, 2)) = 1
        /\ IF MatchesAny(url, PropagateToUrls(i))
           THEN /\ Cardinality(Before(calls, "inject")) = 1
                /\ \A k \in Before(calls, "inject") :
                       HeadersHave(Outgoing(calls).headers, calls[k].carrier)
           ELSE /\ Before(calls, "inject") = {}
                /\ Outgoing(calls).headers = NewHeaders(init)

C7_Send(i) ==
    /\ Cardinality(CallsOf(calls, 2)) = 1
    /\ IF MatchesAny(xhr.url, PropagateToUrls(i))
       THEN /\ Cardinality(Before(calls, "inject")) = 1
            /\ \A k \in Before(calls, "inject") :
                   /\ \A m \in DOMAIN calls[k].carrier :
                          \E j \in Before(calls, "setRequestHeader") :
                              /\ calls[j].key = calls[k].carrier[m].key
                              /\ calls[j].value = calls[k].carrier[m].value
                   /\ HeadersHave(xhr.requestHeaders, calls[k].carrier)
       ELSE /\ Before(calls, "inject") = {}
            /\ Before(calls, "setRequestHeader") = {}
            /\ originalXhrSend[i] = NativeXhrSend => xhr.requestHeaders = <<>>

\* C7: while an instance of the HTTP plugin is set up, for a fetch or an XHR
\* send through its wrapper whose URL is not ignored: when the URL matches
\* one of its propagateToUrls, the headers of the call to the original
\* contain every key/value pair the propagation inject produced; when it
\* matches none, the wrapper calls no inject and the outgoing call carries
\* exactly the headers the caller supplied
C7_PropagationHeaders ==
    \A i \in Instances :
        /\ FetchThrough(i, FALSE) => C7_Fetch(i)
        /\ SendThrough(i, FALSE) => C7_Send(i)

\* a traced fetch got the injected pairs next to none of the caller's, and a
\* traced send to a URL outside propagateToUrls set no header
C7_Witness ==
    \/ /\ FetchThrough(2, FALSE)
       /\ MatchesAny(ResolveUrl(calls[1].input), PropagateToUrls(2))
       /\ \E k \in Before(calls, "inject") : calls[k].carrier # <<>>
       /\ Len(Outgoing(calls).headers) = 2
    \/ /\ SendThrough(1, FALSE)
       /\ ~MatchesAny(xhr.url, PropagateToUrls(1))
       /\ xhr.readyState = "SENT"
       /\ xhr.listeners # <<>>

----------------------------------------------------------------------------
(* C8 *)

\* the three global entry points
Globals == <<fetchFn, xhrOpenFn, xhrSendFn>>

\* the step is teardown() of the instance whose setup() was the operation
\* before it
TeardownAfterSetup ==
    /\ calls[1].op = "setup"
    /\ calls[1].plugin = "http"
    /\ calls'[1].op = "teardown"
    /\ calls'[1].inst = calls[1].inst

\* the step is a request through globals that are the native functions
NativeRequest ==
    \/ calls'[1].op = "fetch" /\ fetchFn = NativeFetch
    \/ calls'[1].op = "open" /\ xhrOpenFn = NativeXhrOpen
    \/ calls'[1].op = "send" /\ xhrSendFn = NativeXhrSend

\* C8: teardown() of an HTTP plugin instance right after its setup() leaves
\* globalThis.fetch, XMLHttpRequest.prototype.open and
\* XMLHttpRequest.prototype.send the very functions they were before that
\* setup(); and a call of a global that is the native function is one call
\* of that function, which starts no span
C8_TeardownRestores ==
    [][/\ TeardownAfterSetup => Globals' = calls[1].globals
       /\ NativeRequest =>
              /\ Len(calls') = 3
              /\ "native" \in DOMAIN calls'[2].fn
              /\ calls'[3].op = "return"
              /\ SpansUntouched]_vars

\* teardown() has just put the three native functions back
C8_Witness ==
    /\ calls[1].op = "teardown"
    /\ calls[1].plugin = "http"
    /\ Len(calls) = 4
    /\ calls[2] = [op |-> "assign", entry |-> "fetch", fn |-> NativeFetch]
    /\ calls[3] = [op |-> "assign", entry |-> "open", fn |-> NativeXhrOpen]
    /\ calls[4] = [op |-> "assign", entry |-> "send", fn |-> NativeXhrSend]
    /\ Globals = <<NativeFetch, NativeXhrOpen, NativeXhrSend>>

----------------------------------------------------------------------------
(* C9 *)

\* the function a global's wrapper calls is not a wrapper itself
OneLayer(fn, originals) == IsWrapper(fn) => ~IsWrapper(originals[fn.inst])

\* no instance is set up: each has been torn down since its last setup()
NoneSetUp ==
    \A i \in Instances :
        /\ originalFetch[i] = Undefined
        /\ originalXhrOpen[i] = Undefined
        /\ originalXhrSend[i] = Undefined

\* C9: whatever the order of the setup() and teardown() calls on the
\* instances, each global entry point has at most one wrapper layered on it,
\* and once every instance that was set up has been torn down the globals
\* are the native functions
C9_ExclusiveReversible ==
    /\ OneLayer(fetchFn, originalFetch)
    /\ OneLayer(xhrOpenFn, originalXhrOpen)
    /\ OneLayer(xhrSendFn, originalXhrSend)
    /\ NoneSetUp => Globals = <<NativeFetch, NativeXhrOpen, NativeXhrSend>>

----------------------------------------------------------------------------
(* C10 *)

\* C10: teardown() of an HTTP plugin instance that is not set up (never set
\* up, or torn down since) assigns no global, changes none of the three
\* entry points nor any captured original, and raises nothing
C10_TeardownIdempotent ==
    [][\A i \in Instances :
           (/\ calls'[1] = [op |-> "teardown", plugin |-> "http", inst |-> i]
            /\ originalFetch[i] = Undefined
            /\ originalXhrOpen[i] = Undefined
            /\ originalXhrSend[i] = Undefined)
           => /\ Len(calls') = 1
              /\ UNCHANGED <<fetchFn, xhrOpenFn, xhrSendFn,
                             originalFetch, originalXhrOpen, originalXhrSend>>]_vars

\* a teardown() that assigned nothing while another instance's wrappers are
\* the globals
C10_Witness ==
    /\ calls = <<[op |-> "teardown", plugin |-> "http", inst |-> 2]>>
    /\ fetchFn = Wrapper(1, "fetch")
    /\ originalFetch[1] = NativeFetch

----------------------------------------------------------------------------
(* C11 *)

\* C11: when the router emits onBeforeNavigate while a navigation span is
\* still active, the listener first calls end() on that span, with no
\* setStatus call on it, and only then startSpan for the new navigation; the
\* span that was active ends with its status unset, and afterwards the active
\* span is the one started last, open and named after the destination.
C11_SupersededSpanEnded ==
    [][ (calls'[1].op = "onBeforeNavigate"
           /\ beforeNavigateListeners # {}
           /\ activeSpan # NoSpan) =>
          /\ calls'[2] = [op |-> "end", span |-> activeSpan]
          /\ calls'[3].op = "startSpan"
          /\ calls'[3].span # activeSpan
          /\ CountOn(calls', "setStatus", activeSpan) = 0
          /\ CountOn(calls', "end", activeSpan) = 1
          /\ spans'[activeSpan].status = spans[activeSpan].status
          /\ spans'[activeSpan].ends = spans[activeSpan].ends + 1
          /\ calls'[Len(calls')] = [op |-> "startSpan", span |-> activeSpan']
          /\ activeSpan' # activeSpan
          /\ Fresh(spans'[activeSpan'])
          /\ spans'[activeSpan'].name
                 = "navigate " \o calls'[1].event.toLocation.pathname
      ]_vars

\* a navigation to "/todos" has just superseded an open navigation to "/":
\* that span is ended with its status unset, the new one is active
C11_Witness ==
    /\ calls[1].op = "onBeforeNavigate"
    /\ Len(calls) = 3
    /\ calls[2].op = "end"
    /\ spans[calls[2].span].name = "navigate /"
    /\ spans[calls[2].span].status = StatusUnset
    /\ spans[calls[2].span].ends = 1
    /\ calls[3] = [op |-> "startSpan", span |-> activeSpan]
    /\ spans[activeSpan].name = "navigate /todos"
    /\ spans[activeSpan].ends = 0

----------------------------------------------------------------------------
(* C12 *)

\* the startSpan calls of a trace that start a span named `name` of `sp`
StartsOf(trace, sp, name) ==
    { i \in DOMAIN trace : trace[i].op = "startSpan" /\ sp[trace[i].span].name = name }

\* span h of `sp` was started and ended, once, within the trace
Synchronous(trace, sp, h) ==
    /\ \E i, j \in DOMAIN trace :
           /\ i < j
           /\ trace[i] = [op |-> "startSpan", span |-> h]
           /\ trace[j].op = "end" /\ trace[j].span = h
    /\ sp[h].ends = 1

\* C12 as stated: a setup() that finds document.readyState "complete" starts
\* and ends one document.load span within the call, with the start time and
\* end time of the recorded navigation entry; a setup() that finds another
\* readyState starts none, no step before the load event starts one, and the
\* load event starts one for every setup() that deferred to it.
C12_LoadSpanAtCompleteOrLoad ==
    [][ /\ (calls'[1].op = "setup" /\ readyState = "complete") =>
              /\ Cardinality(StartsOf(calls', spans', "document.load")) = 1
              /\ \A i \in StartsOf(calls', spans', "document.load") :
                     /\ Synchronous(calls', spans', calls'[i].span)
                     /\ timeline.navigation # <<>> =>
                            /\ spans'[calls'[i].span].startTime = timeline.navigation[1].startTime
                            /\ spans'[calls'[i].span].endTime = timeline.navigation[1].loadEventEnd
        /\ (calls'[1].op # "load" /\ readyState # "complete") =>
              StartsOf(calls', spans', "document.load") = {}
        /\ calls'[1].op = "load" =>
              Cardinality(StartsOf(calls', spans', "document.load")) = loadListeners ]_vars

\* C12, amended: the same, when the browser has recorded a navigation entry;
\* when it has recorded none, neither setup() nor the load event starts a
\* document.load span.  A setup() that defers adds one load listener.
C12_LoadSpanOfNavigationEntry ==
    [][ /\ (calls'[1].op = "setup" /\ readyState = "complete" /\ timeline.navigation # <<>>) =>
              /\ Cardinality(StartsOf(calls', spans', "document.load")) = 1
              /\ \A i \in StartsOf(calls', spans', "document.load") :
                     /\ Synchronous(calls', spans', calls'[i].span)
                     /\ spans'[calls'[i].span].startTime = timeline.navigation[1].startTime
                     /\ spans'[calls'[i].span].endTime = timeline.navigation[1].loadEventEnd
              /\ loadListeners' = loadListeners
        /\ (calls'[1].op = "setup" /\ readyState # "complete") =>
              loadListeners' = loadListeners + 1
        /\ (calls'[1].op # "load" /\ readyState # "complete") =>
              StartsOf(calls', spans', "document.load") = {}
        /\ (calls'[1].op = "load" /\ timeline.navigation # <<>>) =>
              /\ Cardinality(StartsOf(calls', spans', "document.load")) = loadListeners
              /\ \A i \in StartsOf(calls', spans', "document.load") :
                     Synchronous(calls', spans', calls'[i].span)
              /\ loadListeners' = 0
        /\ timeline.navigation = <<>> =>
              StartsOf(calls', spans', "document.load") = {} ]_vars

\* a setup() at readyState "complete", after the load event was handled, has
\* emitted the span from 0 to the load mark
C12_Witness ==
    /\ calls[1].op = "setup" /\ calls[1].plugin = "document-load"
    /\ calls[1].readyState = "complete"
    /\ \E i \in StartsOf(calls, spans, "document.load") :
           /\ spans[calls[i].span].startTime = 0
           /\ spans[calls[i].span].endTime = LoadEventEndMark
           /\ spans[calls[i].span].ends = 1

\* the load event has run the one listener a setup() at readyState "loading"
\* had added, and it has emitted one span
C12_WitnessDeferred ==
    /\ calls[1].op = "load" /\ calls[1].listeners = 1
    /\ Cardinality(StartsOf(calls, spans, "document.load")) = 1
    /\ loadListeners = 0

----------------------------------------------------------------------------
(* C13 *)

\* the places of a trace where op = o is called on span handle h
PlacesOn(trace, o, h) ==
    { i \in DOMAIN trace : trace[i].op = o /\ trace[i].span = h }

\* the calls on span h in a trace, in order, as op names
RECURSIVE OpsOn(_, _)
OpsOn(trace, h) ==
    IF trace = <<>> THEN <<>>
    ELSE IF "span" \in DOMAIN Head(trace) /\ Head(trace).span = h
    THEN <<Head(trace).op>> \o OpsOn(Tail(trace), h)
    ELSE OpsOn(Tail(trace), h)

\* C13: when a native fetch that traced calls await rejects, for each span
\* awaiting it the wrapper calls setStatus with code ERROR, then
\* recordException with the failure exactly when the failure is an Error
\* instance, then end(), once each, and then rejects its own promise with the
\* very value the native fetch rejected with; the span ends with status ERROR.
C13_FailureRecordedAndRethrown ==
    [][ (calls'[1].op = "settle" /\ ~calls'[1].outcome.fulfilled) =>
            \A k \in DOMAIN calls'[1].awaiting :
                LET h == calls'[1].awaiting[k]
                    reason == calls'[1].outcome.reason
                IN  /\ OpsOn(Effects(calls'), h) =
                           IF InstanceOfError(reason)
                           THEN <<"setStatus", "recordException", "end", "rejected">>
                           ELSE <<"setStatus", "end", "rejected">>
                    /\ \A i \in PlacesOn(calls', "setStatus", h) :
                           calls'[i].status.code = "ERROR"
                    /\ \A i \in PlacesOn(calls', "recordException", h) :
                           calls'[i].error = reason
                    /\ \A i \in PlacesOn(calls', "rejected", h) :
                           calls'[i].reason = reason
                    /\ spans'[h].status.code = "ERROR"
                    /\ spans'[h].exceptions =
                           IF InstanceOfError(reason) THEN <<reason>> ELSE <<>>
                    /\ spans'[h].ends = 1
                    /\ spans[h].ends = 0 ]_vars

\* a native fetch has rejected with an Error and the one wrapper awaiting it
\* has recorded it and rejected with it
C13_Witness ==
    /\ calls[1].op = "settle" /\ ~calls[1].outcome.fulfilled
    /\ InstanceOfError(calls[1].outcome.reason)
    /\ Len(calls[1].awaiting) = 1
    /\ calls[Len(calls)] = [op |-> "rejected", span |-> calls[1].awaiting[1],
                            reason |-> calls[1].outcome.reason]
    /\ spans[calls[1].awaiting[1]].exceptions = <<calls[1].outcome.reason>>
    /\ spans[calls[1].awaiting[1]].status = StatusError("Network down")

----------------------------------------------------------------------------
(* C14 *)

\* span h of `sp` ended once, marked for a response of the given status: OK
\* when the status is in `range`, else ERROR with the status in the message
MarkedFor(sp, h, status, range) ==
    /\ sp[h].status = IF status \in range THEN StatusOk
                      ELSE StatusError("HTTP " \o ToString(status))
    /\ sp[h].ends = 1

\* the spans the listeners of `type` of the request close over
ListenerSpans(type) ==
    { xhr.listeners[k].span : k \in { j \in DOMAIN xhr.listeners :
                                          xhr.listeners[j].type = type } }

\* C14: when a traced request completes with a response, through fetch or
\* through XMLHttpRequest, each span of the request is marked OK exactly when
\* the status is in 200..399, else ERROR with the status in the message, and
\* has ended; the wrapper's promise is fulfilled with the response the native
\* fetch gave, and the status of the XMLHttpRequest object is the one the
\* browser set.
C14_StatusClassification ==
    /\ (calls[1].op = "settle" /\ calls[1].outcome.fulfilled) =>
           \A k \in DOMAIN calls[1].awaiting :
               LET h == calls[1].awaiting[k]
               IN  /\ MarkedFor(spans, h, calls[1].outcome.response.status, 200..399)
                   /\ \E i \in DOMAIN calls :
                          calls[i] = [op |-> "fulfilled", span |-> h,
                                      value |-> calls[1].outcome.response]
    /\ (calls[1].op = "xhr settle" /\ calls[1].outcome.events[1] = "load") =>
           /\ \A h \in ListenerSpans("loadend") :
                  MarkedFor(spans, h, calls[1].outcome.status, 200..399)
           /\ xhr.status = calls[1].outcome.status
----------------------------------------------------------------------------
(* C15 *)

\* the plugins on which a trace calls `o` (setup or teardown), in order
RECURSIVE PluginCalls(_, _)
PluginCalls(trace, o) ==
    IF trace = <<>> THEN <<>>
    ELSE IF Head(trace).op = o
    THEN <<Head(trace).plugin>> \o PluginCalls(Tail(trace), o)
    ELSE PluginCalls(Tail(trace), o)

\* C15: initialize(config) calls setup(tracer) on the plugins of
\* config.plugins, once for each place of the list and in list order, and
\* calls no teardown(); the function it returned calls teardown() on the
\* plugins in the same order, calls no setup(), and calls provider.shutdown()
\* once, after the last teardown().
C15_SetupAndTeardownInOrder ==
    [][ /\ calls'[1].op = "initialize" =>
              /\ PluginCalls(Effects(calls'), "setup") = PluginsOf(calls'[1].config)
              /\ PluginCalls(Effects(calls'), "teardown") = <<>>
              /\ CountOp(calls', "shutdown") = 0
              /\ Len(calls') = 2 + Len(PluginsOf(calls'[1].config))
              /\ \A k \in DOMAIN PluginsOf(calls'[1].config) :
                     pluginState'[PluginsOf(calls'[1].config)[k]] = "active"
        /\ calls'[1].op = "teardown all" =>
              /\ PluginCalls(Effects(calls'), "teardown") = PluginsOf(config)
              /\ PluginCalls(Effects(calls'), "setup") = <<>>
              /\ calls'[Len(calls')] = [op |-> "shutdown"]
              /\ CountOp(calls', "shutdown") = 1
              /\ Len(calls') = 2 + Len(PluginsOf(config))
              /\ provider' = "shutdown"
              /\ \A k \in DOMAIN PluginsOf(config) :
                     pluginState'[PluginsOf(config)[k]] = "inactive" ]_vars

\* the teardown function of a configuration with plugins b, a has run
C15_Witness ==
    /\ config # Undefined
    /\ config.plugins = Array(<<"b", "a">>)
    /\ calls = << [op |-> "teardown all"], [op |-> "teardown", plugin |-> "b"],
                  [op |-> "teardown", plugin |-> "a"], [op |-> "shutdown"] >>
    /\ provider = "shutdown"
----------------------------------------------------------------------------
(* C16 *)

\* the value of attribute `key` of a span, or "" when it has none
AttributeOf(span, key) ==
    IF key \in DOMAIN span.attributes THEN span.attributes[key] ELSE ""

\* C16: when the tracer starts a span and the configuration has an attribute
\* supplier, the supplier is called once and the value it returned is set on
\* the new span, over the attributes the span was started with; when a span
\* ends, neither the supplier nor setAttributes is called.  The spans started
\* earlier keep their attributes through a start, an end and a change of the
\* value the supplier reads; without a supplier nothing is set.
C16_AttributesPerSpanStart ==
    [][ /\ (calls'[1].op = "tracer.startSpan" /\ config.getSpanAttributes) =>
              LET h == calls'[2].span
              IN  /\ CountOp(calls', "getAttributes") = 1
                  /\ CountOp(calls', "setAttributes") = 1
                  /\ \E i, j \in DOMAIN calls' :
                         /\ i < j
                         /\ calls'[i] = [op |-> "getAttributes",
                                         returned |-> GetSpanAttributes]
                         /\ calls'[j] = [op |-> "setAttributes", span |-> h,
                                         attributes |-> GetSpanAttributes]
                  /\ spans'[h].attributes = GetSpanAttributes @@ calls'[1].attributes
                  /\ h \notin appSpans
        /\ (calls'[1].op = "tracer.startSpan" /\ ~config.getSpanAttributes) =>
              /\ CountOp(calls', "getAttributes") = 0
              /\ CountOp(calls', "setAttributes") = 0
              /\ spans'[calls'[2].span].attributes = calls'[1].attributes
        /\ calls'[1].op = "span.end" =>
              /\ CountOp(calls', "getAttributes") = 0
              /\ CountOp(calls', "setAttributes") = 0
        /\ calls'[1].op \in {"tracer.startSpan", "span.end", "session"} =>
              \A g \in appSpans : spans'[g].attributes = spans[g].attributes ]_vars

\* a span started before login and a span started after it are both held:
\* the later one has the user, the earlier one has none
C16_Witness ==
    /\ calls[1].op = "tracer.startSpan"
    /\ session = "alice"
    /\ \E g, h \in appSpans :
           /\ g # h
           /\ h = calls[2].span
           /\ AttributeOf(spans[h], "user.id") = "alice"
           /\ AttributeOf(spans[g], "user.id") = ""
----------------------------------------------------------------------------
(* C17 *)

\* the span handles the navigation plugin and the data-fetch cache plugin hold
PluginHandles ==
    MapRange(querySpans) \cup MapRange(mutationSpans) \cup ({activeSpan} \ {NoSpan})

\* a table has one entry for a key, and no span under two keys
OneSpanPerKey(m) ==
    \A i, j \in DOMAIN m : i # j => (m[i].key # m[j].key /\ m[i].value # m[j].value)

\* C17: after every event handler and every teardown() of the navigation
\* plugin and of the data-fetch cache plugin, each span handle the plugin
\* holds (the active navigation span, the entries of the query table and of
\* the mutation table) is a span end() was never called on; a table has one
\* entry for a key and one key for a span, no span is in both tables, and the
\* tracer has no open span besides the held ones.
C17_HeldHandlesAreOpen ==
    /\ \A h \in PluginHandles : h \in DOMAIN spans /\ spans[h].ends = 0
    /\ OneSpanPerKey(querySpans)
    /\ OneSpanPerKey(mutationSpans)
    /\ MapRange(querySpans) \cap MapRange(mutationSpans) = {}
    /\ \A h \in DOMAIN spans : spans[h].ends = 0 => h \in PluginHandles

\* two queries and a mutation are in flight, each with its open span
C17_Witness ==
    /\ Len(querySpans) = 2
    /\ Len(mutationSpans) = 1
    /\ \A h \in PluginHandles : spans[h].ends = 0
    /\ Cardinality(PluginHandles) = 3
----------------------------------------------------------------------------
(* C18 *)

\* the status of the first setStatus call on span h in a trace
FirstStatusOn(trace, h) ==
    trace[CHOOSE i \in PlacesOn(trace, "setStatus", h) :
              \A j \in PlacesOn(trace, "setStatus", h) : i <= j].status

\* C18: when a request a traced send() sent ends, whatever events the browser
\* fires (load and loadend, error and then loadend, timeout and then
\* loadend), end() is called exactly once on each span of the request, and
\* the span ends with the status the first listener that ran had set.
C18_EndedOnceByFirstEvent ==
    [][ calls'[1].op = "xhr settle" =>
            \A h \in { xhr.listeners[k].span : k \in DOMAIN xhr.listeners } :
                /\ CountOn(calls', "end", h) = 1
                /\ spans'[h].ends = 1
                /\ spans'[h].status = FirstStatusOn(calls', h) ]_vars
----------------------------------------------------------------------------
(* C19 *)

\* the spans of `sp` end() was not called on
OpenSpans(sp) == { h \in DOMAIN sp : sp[h].ends = 0 }

\* C19: the navigation plugin is idle when it holds no active span and
\* navigating when it holds one.  Set up once and idle, onBeforeNavigate makes
\* one call, startSpan of a span named "navigate " and the destination path,
\* and the plugin is navigating with that span; navigating, onResolved calls
\* setStatus OK and then end() on the active span and the plugin is idle;
\* navigating, teardown() calls both unsubscribe handles and then end() on the
\* active span, whose status it leaves, and the plugin is idle.  After every
\* step the open spans are the active span alone, or none when idle.
C19_NavigationStateMachine ==
    [][ "router" \in plugins =>
        /\ (/\ calls'[1].op = "onBeforeNavigate"
            /\ activeSpan = NoSpan
            /\ Cardinality(beforeNavigateListeners) = 1) =>
               /\ Effects(calls') = <<[op |-> "startSpan", span |-> activeSpan']>>
               /\ activeSpan' # NoSpan
               /\ Fresh(spans'[activeSpan'])
               /\ spans'[activeSpan'].name =
                      "navigate " \o calls'[1].event.toLocation.pathname
        /\ (/\ calls'[1].op = "onResolved"
            /\ activeSpan # NoSpan
            /\ resolvedListeners # {}) =>
               /\ Effects(calls') = << [op |-> "setStatus", span |-> activeSpan,
                                       status |-> StatusOk],
                                      [op |-> "end", span |-> activeSpan] >>
               /\ spans'[activeSpan].status = StatusOk
               /\ spans'[activeSpan].ends = 1
               /\ activeSpan' = NoSpan
        /\ (calls'[1].op = "teardown" /\ activeSpan # NoSpan) =>
               /\ Effects(calls') =
                      << [op |-> "unsubscribe", source |-> "onBeforeNavigate",
                          handle |-> unsubBeforeNavigate],
                         [op |-> "unsubscribe", source |-> "onResolved",
                          handle |-> unsubResolved],
                         [op |-> "end", span |-> activeSpan] >>
               /\ unsubBeforeNavigate \notin beforeNavigateListeners'
               /\ unsubResolved \notin resolvedListeners'
               /\ spans'[activeSpan].status = spans[activeSpan].status
               /\ spans'[activeSpan].ends = 1
               /\ activeSpan' = NoSpan
        /\ OpenSpans(spans') = {activeSpan'} \ {NoSpan} ]_vars

\* onResolved has just ended the active span of a navigation with status OK
\* and the plugin is idle again
C19_Witness ==
    /\ "router" \in plugins
    /\ calls[1].op = "onResolved"
    /\ Len(calls) = 3
    /\ calls[3].op = "end"
    /\ spans[calls[3].span].status = StatusOk
    /\ spans[calls[3].span].ends = 1
    /\ activeSpan = NoSpan
    /\ OpenSpans(spans) = {}
----------------------------------------------------------------------------
(* C20 *)

\* the startSpan calls of a trace
SpanStarts(trace) == { k \in DOMAIN trace : k > 1 /\ trace[k].op = "startSpan" }

\* C20: an open() through the open wrapper of an instance that is set up
\* records the upper-cased method and the resolved URL on the request object;
\* a send() on a request object with no recorded method or URL starts no
\* span, and through the send wrapper of an instance that is set up it calls
\* the original send with the caller's body; the spans a send() starts carry
\* the method and URL the request object was last opened with.
C20_RecordedAtOpenReadAtSend ==
    /\ (/\ calls[1].op = "open"
        /\ IsWrapper(xhrOpenFn)
        /\ originalXhrOpen[xhrOpenFn.inst] # Undefined) =>
           /\ xhr.__otel_method = ToUpperCase(calls[1].method)
           /\ xhr.__otel_url = NewUrlHref(calls[1].url, LocationOrigin)
    /\ (calls[1].op = "send" /\ (xhr.__otel_url = NoUrl \/ xhr.__otel_method = NoMethod)) =>
           /\ SpanStarts(calls) = {}
           /\ (IsWrapper(xhrSendFn) /\ originalXhrSend[xhrSendFn.inst] # Undefined) =>
                  PassesThrough(calls, xhrSendFn, originalXhrSend[xhrSendFn.inst],
                                <<calls[1].body>>)
    /\ calls[1].op = "send" =>
           \A k \in SpanStarts(calls) :
               /\ spans[calls[k].span].attributes["http.method"] = xhr.method
               /\ spans[calls[k].span].attributes["http.url"] = xhr.url
----------------------------------------------------------------------------
(* C21 *)

\* the startSpan calls of a trace that start a paint span
PaintStarts(trace, sp) ==
    StartsOf(trace, sp, "first-paint") \cup StartsOf(trace, sp, "first-contentful-paint")

\* the entries of a trace at which a PerformanceObserver of the given kind is
\* made, or making it throws
ObserversMade(trace, kind) ==
    { i \in DOMAIN trace : trace[i].op = "new PerformanceObserver" /\ trace[i].kind = kind }

\* the observers of `obs` of the given kind that are observing
Observing(obs, kind) ==
    { o \in DOMAIN obs : obs[o].kind = kind /\ obs[o].type # "" }

\* C21: a setup() that finds paint entries starts and ends one span for each
\* of them, from the navigation start to the time of the entry, and makes no
\* paint observer; a setup() that finds none, where the browser supports
\* paint observers, starts no paint span and leaves one more paint observer
\* observing.  A callback of a paint observer is its first: it starts one
\* span for each entry it is given and disconnects the observer, so a paint
\* observer that was given entries is never observing, and no other step
\* starts a paint span.  A callback of a largest-contentful-paint observer
\* starts one span, for the last entry it is given, and leaves the observer
\* observing; teardown() disconnects the observer the plugin holds and drops
\* it, and when setup() ran once no largest-contentful-paint observer is
\* observing afterwards; only such a callback starts a span of that name.
C21_PaintOneShotLcpUntilTeardown ==
    [][ /\ (calls'[1].op = "setup" /\ timeline.paint # <<>>) =>
              /\ Cardinality(PaintStarts(calls', spans')) = Len(timeline.paint)
              /\ \A k \in DOMAIN timeline.paint :
                     \E i \in StartsOf(calls', spans', timeline.paint[k].name) :
                         /\ Synchronous(calls', spans', calls'[i].span)
                         /\ spans'[calls'[i].span].endTime = timeline.paint[k].startTime
                         /\ spans'[calls'[i].span].startTime = 0
              /\ ObserversMade(calls', "paint") = {}
              /\ Observing(observers', "paint") = Observing(observers, "paint")
        /\ (calls'[1].op = "setup" /\ timeline.paint = <<>>) =>
              /\ PaintStarts(calls', spans') = {}
              /\ "paint" \in support.types =>
                     /\ Cardinality(ObserversMade(calls', "paint")) = 1
                     /\ Cardinality(Observing(observers', "paint")) =
                            Cardinality(Observing(observers, "paint")) + 1
        /\ (calls'[1].op = "callback" /\ observers[calls'[1].observer].kind = "paint") =>
              LET o == calls'[1].observer
              IN  /\ observers[o].given = 0
                  /\ Cardinality(PaintStarts(calls', spans')) = Len(calls'[1].list)
                  /\ calls'[Len(calls')] = [op |-> "disconnect", observer |-> o]
                  /\ observers'[o].type = ""
                  /\ StartsOf(calls', spans', "largest-contentful-paint") = {}
        /\ \A o \in DOMAIN observers' :
               (observers'[o].kind = "paint" /\ observers'[o].given > 0) =>
                   observers'[o].type = ""
        /\ calls'[1].op \notin {"setup", "callback"} => PaintStarts(calls', spans') = {}
        /\ (calls'[1].op = "callback" /\ observers[calls'[1].observer].kind = "lcp") =>
              LET o == calls'[1].observer
                  list == calls'[1].list
              IN  /\ Cardinality(StartsOf(calls', spans', "largest-contentful-paint")) = 1
                  /\ \A i \in StartsOf(calls', spans', "largest-contentful-paint") :
                         /\ Synchronous(calls', spans', calls'[i].span)
                         /\ spans'[calls'[i].span].attributes.lcp_duration_ms =
                                list[Len(list)].startTime
                         /\ spans'[calls'[i].span].attributes.lcp_size =
                                list[Len(list)].size
                         /\ spans'[calls'[i].span].endTime = list[Len(list)].startTime
                  /\ PaintStarts(calls', spans') = {}
                  /\ observers'[o].type = "largest-contentful-paint"
                  /\ setups <= 1 => o = observer
        /\ calls'[1].op = "teardown" =>
              /\ observer # NoHandle => observers'[observer].type = ""
              /\ observer' = NoHandle
              /\ setups <= 1 => Observing(observers', "lcp") = {}
        /\ (calls'[1].op # "callback" \/ observers[calls'[1].observer].kind # "lcp") =>
              StartsOf(calls', spans', "largest-contentful-paint") = {}
        /\ (setups' <= 1 /\ observer' = NoHandle) => Observing(observers', "lcp") = {} ]_vars

\* the paint observer has had its one callback and is disconnected, and the
\* largest-contentful-paint observer has just had its second callback
C21_Witness ==
    /\ calls[1].op = "callback"
    /\ observers[calls[1].observer].kind = "lcp"
    /\ observers[calls[1].observer].given = 2
    /\ Len(calls[1].list) = 1
    /\ Cardinality(StartsOf(calls, spans, "largest-contentful-paint")) = 1
    /\ \E p \in DOMAIN observers :
           observers[p].kind = "paint" /\ observers[p].given > 0 /\ observers[p].type = ""
----------------------------------------------------------------------------
(* C22 *)

\* the entries of a trace at which a call threw
Thrown(trace) == { i \in DOMAIN trace : "threw" \in DOMAIN trace[i] }

\* C22: a setup() in which making or registering the paint observer or the
\* largest-contentful-paint observer threw returns all the same, and has set
\* up the rest: the load listener or the document.load span, the spans of
\* the paint entries already there, the paint observer where only the other
\* registration failed, and the largest-contentful-paint observer where only
\* the paint registration failed (it is attempted in every case).  A
\* teardown() that finds no observer, or one whose registration failed,
\* returns, starts no span, and changes neither what any observer observes
\* nor the load listeners.
C22_RegistrationFailureIsContained ==
    [][ /\ (calls'[1].op = "setup" /\ Thrown(calls') # {}) =>
              /\ calls'[Len(calls')] = [op |-> "return"]
              /\ \A i \in Thrown(calls') :
                     calls'[i].op \in {"new PerformanceObserver", "observe"}
              /\ readyState # "complete" => loadListeners' = loadListeners + 1
              /\ (readyState = "complete" /\ timeline.navigation # <<>>) =>
                     Cardinality(StartsOf(calls', spans', "document.load")) = 1
              /\ timeline.paint # <<>> =>
                     Cardinality(PaintStarts(calls', spans')) = Len(timeline.paint)
              /\ (timeline.paint = <<>> /\ "paint" \in support.types) =>
                     Cardinality(Observing(observers', "paint")) =
                         Cardinality(Observing(observers, "paint")) + 1
              /\ Cardinality(ObserversMade(calls', "lcp")) = 1
              /\ "largest-contentful-paint" \in support.types =>
                     /\ observer' \in DOMAIN observers' \ DOMAIN observers
                     /\ observers'[observer'].type = "largest-contentful-paint"
        /\ (calls'[1].op = "teardown"
              /\ (observer = NoHandle \/ observers[observer].type = "")) =>
              /\ calls'[Len(calls')] = [op |-> "return"]
              /\ Thrown(calls') = {}
              /\ SpanStarts(calls') = {}
              /\ spans' = Tracer
              /\ Observing(observers', "paint") = Observing(observers, "paint")
              /\ Observing(observers', "lcp") = Observing(observers, "lcp")
              /\ loadListeners' = loadListeners
              /\ observer' = NoHandle ]_vars

\* teardown() has run after a setup() whose registration of the
\* largest-contentful-paint observer threw, with the paint observer and the
\* load listener that setup() left still in place
C22_Witness ==
    /\ calls[1].op = "teardown"
    /\ calls[Len(calls)] = [op |-> "return"]
    /\ setups = 1
    /\ "largest-contentful-paint" \notin support.types
    /\ \E o \in DOMAIN observers : observers[o].kind = "lcp" /\ observers[o].type = ""
    /\ Observing(observers, "paint") # {}
    /\ loadListeners = 1
----------------------------------------------------------------------------
(* C23 *)

\* teardown() has returned since the last setup(): setup() leaves the plugin
\* holding an observer wherever the browser has PerformanceObserver, and only
\* teardown() makes it drop the observer
TornDown ==
    /\ setups >= 1
    /\ support.PerformanceObserver
    /\ observer = NoHandle

\* C23: once teardown() of the page-load plugin has returned, no step other
\* than a new setup() starts a span: not the load event, not a callback of
\* the paint observer, not a callback of the largest-contentful-paint
\* observer.
C23_NoSpanAfterTeardown ==
    [][ (TornDown /\ calls'[1].op # "setup") => SpanStarts(calls') = {} ]_vars

====
